---- MODULE Spec2Model ----
(***************************************************************************)
(* Verification model of the bike-share curation pipeline                  *)
(* (SourceCode/DataCuration).  A DataFrame is a sequence of records, one   *)
(* record per row, in row order.  A missing numeric cell is the integer    *)
(* NaN, a missing text cell is the string "NaN".                           *)
(*                                                                         *)
(* Units.  Timestamps are whole seconds since 1970-01-01T00:00:00 and the  *)
(* modelled batches lie in 1970.  In the feature-engineering stage the     *)
(* stations of a batch lie on one meridian, where the haversine formula    *)
(* a = sin^2(dlat/2), d = 2 R asin(sqrt(a)) is exactly R * |dlat|;         *)
(* latitudes there are counted in hectometres of arc (100 m of great       *)
(* circle), so that distances are exact integers.                          *)
(***************************************************************************)
EXTENDS Integers, Sequences, FiniteSets, TLC

VARIABLES
    df_metro,        \* homogenized MetroBike trips (homogenize_metro_dataset)
    df_capital,      \* homogenized CapitalBike trips (homogenize_capital_dataset)
    df_stations,     \* station registry (generate_stations_dataframe)
    df_bikes,        \* bike registry (generate_bikes_dataframe)
    df_trips,        \* trips with natural keys (generate_trips_dataframe)
    df_trips_mapped, \* trips with surrogate keys (map_trips_foreign_keys_to_uuids)
    df_demographics, \* demographic table (generate_demographics_dataframe)
    df_weather,      \* weather table (generate_weather_dataframe)
    made,            \* the tables generated so far
    rng,             \* state of the process-wide generator of module random
    listing,         \* the homogenized tables as first read (history, for reorderings)
    openmeteo_hours, \* hourly rows of each OpenMeteo file under RawData
    df_trip_month,   \* feature_engineering: the monthly trip batch read from trips_Y_M.csv
    stations_csv,    \* feature_engineering: the station table read from stations.csv
    df_features,     \* feature_engineering: output of generate_trips_feature_engineering
    zip_dict,        \* get_zip_code_by_coordenates: postal area by row position
    geo,             \* get_zip_code_by_coordenates: row, attempt and lookups issued
    curated,         \* the files of the CuratedData folder, by name
    args,            \* main: the flags and the environment of the run
    pc               \* position of the running stage

cleanVars == <<df_metro, df_capital, df_stations, df_bikes, df_trips, df_trips_mapped,
               df_demographics, df_weather, made, rng, listing, openmeteo_hours>>
featVars == <<df_trip_month, stations_csv, df_features>>
runVars == <<zip_dict, geo, curated, args>>
vars == <<cleanVars, featVars, runVars, pc>>

(***************************************************************************)
(* Bounds of the model.                                                    *)
(***************************************************************************)
\* rows of a monthly trip batch
MaxBatch == 2
\* rows of a homogenized table in the station runs
MaxStationRows == 2
\* rows of the Metro table in the sign-correction runs
MaxRectifyRows == 2
\* postal areas of the demographic table in the imputation runs
MaxAreas == 3
\* rows of the trip table in the key-mapping runs
MaxMapRows == 2
\* rows of the station table in the geocoding runs
MaxGeoStations == 2
\* rows of the mapped trip table in the partition runs
MaxPartitionRows == 2
\* rows of the Metro table in the runs of main
MaxMainRows == 1
\* runs of main over one CuratedData folder
MaxRuns == 2
\* postal areas of the registry in the census runs
MaxCensusAreas == 4
\* rows of a station table in the sign runs
MaxFlipRows == 2
\* trip files of a raw folder in the homogenization runs
MaxFiles == 2
\* rows of a monthly trip batch in the category runs
MaxCategoryRows == 2
\* rows of a homogenized table in the bike runs
MaxBikeRows == 2
\* rows of a homogenized table in the trip runs
MaxTripRows == 2
\* rows of the Metro table in the generator runs
MaxRngRows == 1
\* hourly rows of each OpenMeteo file
MaxWeatherHours == 1
\* draws other code makes from the shared generator after a seeding
MaxOtherDraws == 3

(***************************************************************************)
(* Generic DataFrame helpers.                                              *)
(***************************************************************************)
NaN == -(2 ^ 30)

Abs(x) == IF x < 0 THEN -x ELSE x

RECURSIVE Flatten(_)
Flatten(ss) == IF ss = <<>> THEN <<>> ELSE Head(ss) \o Flatten(Tail(ss))

\* All sequences over S of length at most n.
SeqsUpTo(S, n) == UNION {[1..k -> S] : k \in 0..n}

Min(S) == CHOOSE x \in S : \A y \in S : x <= y

RECURSIVE SortedSeq(_)
SortedSeq(S) == IF S = {} THEN <<>> ELSE <<Min(S)>> \o SortedSeq(S \ {Min(S)})

Range(s) == {s[i] : i \in 1..Len(s)}

\* DataFrame.drop_duplicates(): the first occurrence of every row is kept.
RECURSIVE DropDuplicatesFrom(_, _)
DropDuplicatesFrom(rows, seen) ==
    IF rows = <<>> THEN <<>>
    ELSE IF Head(rows) \in seen THEN DropDuplicatesFrom(Tail(rows), seen)
    ELSE <<Head(rows)>> \o DropDuplicatesFrom(Tail(rows), seen \cup {Head(rows)})
DropDuplicates(rows) == DropDuplicatesFrom(rows, {})

\* Series.mode() of the non-missing values, ordered by Key, first value;
\* the missing marker when every value is missing.
SafeModeBy(series, missing, Key(_)) ==
    LET vals == Range(series) \ {missing}
        Count(v) == Cardinality({i \in 1..Len(series) : series[i] = v})
        modes == {v \in vals : \A w \in vals : Count(v) >= Count(w)}
    IN  IF vals = {} THEN missing
        ELSE CHOOSE v \in modes : \A w \in modes : Key(v) <= Key(w)

safe_mode(series) ==
    SafeModeBy(series, NaN, LAMBDA v : v)

\* groupby(...).agg('first') of a text column: the first non-missing value.
FirstText(series) ==
    LET present == SelectSeq(series, LAMBDA v : v # "NaN")
    IN  IF present = <<>> THEN "NaN" ELSE Head(present)

(***************************************************************************)
(* The shared generator of module random.  A state is the seed last set    *)
(* and the number of 128-bit draws made since.  UuidStream[s][k] is        *)
(* str(uuid.UUID(int=random.getrandbits(128))) for the k-th draw after     *)
(* random.seed(s), as CPython's Mersenne Twister produces it.  Seeds 101   *)
(* and 102 stand for the entropy the interpreter seeds the generator with  *)
(* at import.                                                              *)
(***************************************************************************)
UuidStream ==
    0 :> <<"e3e70682-c209-4cac-629f-6fbed82c07cd",
          "f728b4fa-4248-5e3a-0a5d-2f346baa9455",
          "eb1167b3-67a9-c378-7c65-c1e582e2e662",
          "f7c1bd87-4da5-e709-d471-3d60c8a70639",
          "e443df78-9558-867f-5ba9-1faf7a024204",
          "23a7711a-8133-2876-37eb-dcd9e87a1613",
          "1846d424-c17c-6279-23c6-612f48268673",
          "fcbd04c3-4021-2ef7-cca5-a5a19e4d6e3c",
          "b4862b21-fb97-d435-8856-1712e8e5216a",
          "259f4329-e6f4-590b-9a16-4106cf6a659e",
          "12e0c8b2-bad6-40fb-1948-8dec4f65d4d9",
          "5487ce1e-af19-922a-d9b8-a714e61a441c">>
    @@ 1 :> <<"cd613e30-d8f1-6adf-91b7-584a2265b1f5",
          "1e2feb89-414c-343c-1027-c4d1c386bbc4",
          "78e51061-7311-d8a3-c2ce-6f447ed4d57b",
          "35bf992d-c9e9-c616-612e-7696a6cecc1b",
          "e4b06ce6-0741-c7a8-7ce4-2c8218072e8c",
          "9b810e76-6ec9-d286-63ca-828dd5f4b3b2",
          "b2221a58-008a-05a6-c464-7159c324c985",
          "cd447e35-b8b6-d8fe-442e-3d437204e52d",
          "1a2b8f1f-f1fd-42a2-9755-d4c13a902931",
          "05b6e6e3-07d4-bedc-5143-1193e6c3f339",
          "025b413f-8a9a-021e-a648-a7dd06839eb9",
          "afbd67f9-6196-99cf-e198-8ad9f06c144a">>
    @@ 2 :> <<"d95bafc8-f2a4-d27b-dcf4-bb99f4bea973",
          "5c6e4337-15ba-2bdd-1772-19d30e7a269f",
          "cf1822ff-bc68-8778-2b49-1044d5e34124",
          "4067c358-4ee2-07f8-da94-e3e8ab73738f",
          "0925e474-9b57-5bd1-3653-f8dd9b1f282e",
          "ffed9235-288b-c781-ae66-267594c9c950",
          "cdbd47d3-64be-8049-a372-db8f6e405d93",
          "82523e86-feac-7eb7-dc38-f519b91751da",
          "ef8acd12-8b4f-2fc1-5f3f-57ebf30b94fa",
          "e6b58de7-44ab-6cce-8087-7b6f71e1f6d2",
          "5d300cb9-0706-a045-defc-044a09325626",
          "e8624fab-5186-ee32-ee8d-7ee9770348a0">>
    @@ 3 :> <<"21636369-8b52-9b4a-97b7-50923ceb3ffd",
          "795b929e-9a9a-80fd-ea7b-5bf55eb561a4",
          "9b08923d-10c6-7fd9-94b2-b8fda02f34a6",
          "781f9c58-d664-5fa9-e8a8-529f035efa25",
          "31162427-3bfd-1d33-8d00-38ec42650644",
          "8a7d43b5-7863-3074-b797-0386fee29476",
          "65aa9c82-79f2-48b0-8cb4-a0d7d6225675",
          "3b5f3d86-268e-cc45-dc6b-f1e1a399f82a",
          "ed038db4-de38-3784-26d0-b944a2863a7f",
          "03e0a813-bdc2-ae99-63d2-e49085ef3430",
          "28ce6f24-1064-5d51-c6f8-da3eabe19f58",
          "0af438d2-9752-4d6a-f51e-8722c21b6092">>
    @@ 4 :> <<"b8a1abcd-1a69-16c7-4da4-f9fc3c6da5d7",
          "1710cf53-27ac-435a-7a97-c643656412a9",
          "8ca59966-66ce-ab36-0512-bd1311072231",
          "fd724452-ccea-71ff-4a14-876aeaff1a09",
          "8534f457-38d0-48ec-0f10-99c6c3e1b258",
          "c79d6793-46d4-ac7a-5c39-02b38963dc6e",
          "43000de0-1b2e-d40e-d3ad-dccb2c33be0a",
          "06905269-ed6f-0b09-f165-c8ce36e2f24b",
          "42a00403-ce80-c4b0-a404-2bb3d4341aad",
          "2a318785-3184-ff27-4591-42deccea2645",
          "de08caa1-a081-7910-4a25-e4664f5253a0",
          "d93936e1-daca-3c06-f5ff-0c03bb5d7385">>
    @@ 5 :> <<"5bc8fbbc-bde5-c099-4164-d8399f767c45",
          "d76d4330-f144-6bea-b0c1-1fdecb91ce37",
          "87b0b125-ec1d-7da0-a6eb-8c9ebd69fe29",
          "c6a53877-7733-0bdb-d721-0dff076ce2ef",
          "0d464138-a623-3255-3fc1-ea36f17fd374",
          "5f2dd97f-1cfb-10f6-2827-688de6a16a3b",
          "617959ce-3f1f-65a8-de52-71007814e8a2",
          "3fd42359-92ed-cf45-1a1a-fe878b33e968",
          "687c966c-377b-9aa2-bb2e-db20035b7399",
          "de11cc9d-ea95-9c21-2e9c-82b1478c281d",
          "c30d8b76-28db-d25e-63b2-29f1c4069545",
          "9e30691c-2386-42ea-126a-1e48cc11d357">>
    @@ 6 :> <<"14a03569-d26b-9496-92e5-dfe8cb1855fe",
          "096d3737-42f9-a039-c320-a4737c2b3abe",
          "9623d7cf-a9ae-7a34-2544-99c7001d9a88",
          "bc1e3ac1-c27d-b4ec-f72c-2c2678629522",
          "059a91e1-c527-e279-51c3-42505f877031",
          "32b7228f-cd4a-5557-7d24-b39645cf8aa4",
          "e91b4ad1-69fc-5360-df5c-a32ebad5ccc2",
          "181e290a-ae9a-f169-8a0c-510089ce5ef7",
          "b313fc7e-8db9-b92c-903c-2ac9316774fe",
          "a9b3d1a2-43f9-300c-ba98-666ace1c9c17",
          "168e5087-af89-5f5b-9c2c-0ac2cda95957",
          "fd802060-55e8-b3eb-6cb9-185ed822e2f9">>
    @@ 101 :> <<"e88b7591-31db-6e32-d8dc-b35f94c662cd",
          "5bd21b6a-ec89-b7a6-8a0a-c984f71ab247",
          "80e6b5d0-a9d9-3650-0c6b-df0d7796668d",
          "eae3732d-38c1-15d6-9a1f-7aa536eafa28",
          "c87383f4-b142-9de1-7c47-571849dc9b34",
          "701f9706-f89a-6643-543b-cd04365e52e7",
          "293ba8b9-317b-3b86-4157-89161202d125",
          "898e53e0-c517-a35a-71f9-65b916bfc355",
          "c9498373-78c0-2b33-310d-70c35dd3ecf5",
          "ca8bc116-a32e-6908-3d23-5422537696b2",
          "101a254a-3551-084a-6c1b-fcd667659e61",
          "363519c6-4de5-effa-77bc-394e6e1e9334">>
    @@ 102 :> <<"5bb58492-9daf-e6be-ad21-914625ee8c4c",
          "a931c942-b666-dafe-8dee-318d2b7087bd",
          "4af52599-6263-f0db-2eb7-49c19b9ae91b",
          "94d0f69b-90f5-eb6c-6dda-2c189e145325",
          "8b014dc3-87b5-d489-b96b-a8860b109d1b",
          "e28e434c-8505-1890-bf11-0e279ea1eb4b",
          "ca758647-bc3d-5a2d-2f72-df18e1246f57",
          "8295bc5d-3a12-2b95-7107-7bc7608aef14",
          "0d8885e4-cf69-61bd-15be-9f0c20c7d6bc",
          "9349e388-9bfc-3c9e-2f0b-051bb095d698",
          "d6621f80-8044-385d-e5fc-7f5c711556cc",
          "86904053-87c8-e601-b6da-a44038d69c75">>

EntropySeeds == {101, 102}

\* random.seed(seed_value) omitted: the generator keeps its state.
RandomSeedSkipped(r, seed_value) == r

\* random.seed(seed_value)
RandomSeed(r, seed_value) == [seed |-> seed_value, pos |-> 0]

\* [str(uuid.UUID(int=random.getrandbits(128))) for _ in range(n)]
Uuids(r, n) == [k \in 1..n |-> UuidStream[r.seed][r.pos + k]]

\* The generator after n draws.
Drawn(r, n) == [seed |-> r.seed, pos |-> r.pos + n]

(***************************************************************************)
(* data_cleaning_homogenization.py: stations.  Coordinates are integers,   *)
(* in millionths of a degree.                                              *)
(***************************************************************************)
Degree == 10 ^ 6
Tolerance == 3
MetroCityLatitude == 34059753
MetroCityLongitude == -118237500
CapitalCityLatitude == 38910366
CapitalCityLongitude == -77072510
MinCoordinateDigits == 6

Sign(x) == IF x > 0 THEN 1 ELSE IF x < 0 THEN -1 ELSE 0

RECURSIVE IntDigits(_)
IntDigits(n) == IF n < 10 THEN 1 ELSE 1 + IntDigits(n \div 10)

RECURSIVE StripZeros(_)
StripZeros(n) == IF n # 0 /\ n % 10 = 0 THEN StripZeros(n \div 10) ELSE n

\* str.count(r'\d') of a coordinate after astype(str): the digits of the
\* shortest decimal form of the float ("38.91" has 4, "38.910366" has 8,
\* "-77.0" has 3, "nan" has 0, "1.2e-05" has 4).
CoordinateDigits(c) ==
    IF c = NaN THEN 0
    ELSE LET whole == Abs(c) \div Degree
             frac == Abs(c) % Degree
         IN  IF frac = 0 THEN IntDigits(whole) + 1
             ELSE IF whole = 0 /\ frac < 100 THEN IntDigits(StripZeros(frac)) + 2
             ELSE IntDigits(whole) + (6 - (IntDigits(frac) - IntDigits(StripZeros(frac))))

\* The four station columns of one trip end, renamed.
StartTerminal(df) ==
    [i \in 1..Len(df) |->
        [station_id |-> df[i].start_station_id, lat |-> df[i].start_lat,
         lon |-> df[i].start_lon, station_name |-> df[i].start_station_name]]
EndTerminal(df) ==
    [i \in 1..Len(df) |->
        [station_id |-> df[i].end_station_id, lat |-> df[i].end_lat,
         lon |-> df[i].end_lon, station_name |-> df[i].end_station_name]]

\* df[station_columns].drop_duplicates(): the eight station columns.
StationColumns(df) ==
    DropDuplicates([i \in 1..Len(df) |->
        [start_station_id |-> df[i].start_station_id, start_lat |-> df[i].start_lat,
         start_lon |-> df[i].start_lon, start_station_name |-> df[i].start_station_name,
         end_station_id |-> df[i].end_station_id, end_lat |-> df[i].end_lat,
         end_lon |-> df[i].end_lon, end_station_name |-> df[i].end_station_name]])

\* sort_values(by=["station_id"]): ascending, missing ids last, rows of one
\* id in their previous order.
SortByStationId(rows) ==
    LET ids == SortedSeq({rows[i].station_id : i \in 1..Len(rows)} \ {NaN})
    IN  Flatten([k \in 1..Len(ids) |->
            SelectSeq(rows, LAMBDA r : r.station_id = ids[k])])
        \o SelectSeq(rows, LAMBDA r : r.station_id = NaN)

\* groupby(by=["station_id"]).agg(lat=safe_mode, lon=safe_mode,
\* station_name='first').reset_index(): one row per non-missing id, ids
\* ascending.
GroupByStation(rows) ==
    LET ids == SortedSeq({rows[i].station_id : i \in 1..Len(rows)} \ {NaN})
    IN  [k \in 1..Len(ids) |->
            LET g == SelectSeq(rows, LAMBDA r : r.station_id = ids[k])
            IN  [station_id |-> ids[k],
                 lat |-> safe_mode([i \in 1..Len(g) |-> g[i].lat]),
                 lon |-> safe_mode([i \in 1..Len(g) |-> g[i].lon]),
                 station_name |-> FirstText([i \in 1..Len(g) |-> g[i].station_name])]]

get_metro_unique_stations(df_stations_terminal) ==
    GroupByStation(SortByStationId(DropDuplicates(df_stations_terminal)))

\* groupby(by=["lat", "lon"]).first().reset_index(): one row per coordinate
\* pair, pairs ascending, with the first non-missing id and name of the pair.
GroupByCoordinatesFirst(rows) ==
    LET lats == SortedSeq({rows[i].lat : i \in 1..Len(rows)})
        LonsOf(lat) == SortedSeq({rows[i].lon : i \in {j \in 1..Len(rows) : rows[j].lat = lat}})
    IN  Flatten([a \in 1..Len(lats) |->
            [b \in 1..Len(LonsOf(lats[a])) |->
                LET g == SelectSeq(rows, LAMBDA r :
                            r.lat = lats[a] /\ r.lon = LonsOf(lats[a])[b])
                    ids == SelectSeq([i \in 1..Len(g) |-> g[i].station_id],
                                     LAMBDA v : v # NaN)
                IN  [station_id |-> IF ids = <<>> THEN NaN ELSE Head(ids),
                     lat |-> lats[a],
                     lon |-> LonsOf(lats[a])[b],
                     station_name |-> FirstText([i \in 1..Len(g) |-> g[i].station_name])]]])

\* The rows of a terminal whose latitude and longitude both have more than
\* six digits, one per coordinate pair.
CapitalValidPairs(df_stations_terminal) ==
    GroupByCoordinatesFirst(
        SelectSeq(df_stations_terminal, LAMBDA r :
            /\ CoordinateDigits(r.lat) > MinCoordinateDigits
            /\ CoordinateDigits(r.lon) > MinCoordinateDigits))

\* station_id.astype(int) raises on a missing id.
CapitalUniqueStationsRaises(df_stations_terminal) ==
    \E i \in 1..Len(CapitalValidPairs(df_stations_terminal)) :
        CapitalValidPairs(df_stations_terminal)[i].station_id = NaN

get_capital_unique_stations(df_stations_terminal) ==
    GroupByStation(CapitalValidPairs(df_stations_terminal))

\* The sign test left out: every value within the tolerance is flipped.
rectify_coordinate_unsigned(value, city_value, tolerance) ==
    IF Abs(Abs(value) - Abs(city_value)) <= tolerance * Degree
    THEN value * (-1) ELSE value

rectify_coordinate(value, city_value, tolerance) ==
    IF /\ Abs(Abs(value) - Abs(city_value)) <= tolerance * Degree
       /\ Sign(value) # Sign(city_value)
    THEN value * (-1) ELSE value

rectify_coordinates(df, city_latitude, city_longitude, tolerance) ==
    [i \in 1..Len(df) |->
        [df[i] EXCEPT !.lat = rectify_coordinate(@, city_latitude, tolerance),
                      !.lon = rectify_coordinate(@, city_longitude, tolerance)]]

\* The local postal database behind get_zip_code: the postal area of a
\* coordinate pair, "NaN" when by_coordinates finds none.
get_zip_code(latitude, longitude) ==
    IF latitude \in (24 * Degree)..(50 * Degree) /\ longitude \in (-125 * Degree)..(-66 * Degree)
    THEN IF longitude < -100 * Degree THEN "90012" ELSE "20007"
    ELSE "NaN"

\* get_zip_code_by_coordenates followed by df_stations["zip_code"] = zip_dict.
\* failing is the set of row positions whose lookup raised on every attempt:
\* the dictionary has no entry for them, the loop never raises, and the
\* assignment aligns the dictionary with the row index, leaving them missing.
WithZipCodes(df, failing) ==
    [i \in 1..Len(df) |->
        [station_id |-> df[i].station_id, lat |-> df[i].lat, lon |-> df[i].lon,
         station_name |-> df[i].station_name,
         zip_code |-> IF i \in failing THEN "NaN" ELSE get_zip_code(df[i].lat, df[i].lon)]]

\* get_zip_code_by_coordenates(df_stations, retries=5)
Retries == 5

\* Only a postal area that was found is stored.
WithEntryFound(dict, i, value) ==
    IF value = "NaN" THEN dict
    ELSE [k \in DOMAIN dict \cup {i} |-> IF k = i THEN value ELSE dict[k]]

\* zip_dict[i] = value
WithEntry(dict, i, value) ==
    [k \in DOMAIN dict \cup {i} |-> IF k = i THEN value ELSE dict[k]]

\* The dictionary's values written down the column in key order, whatever
\* the keys are.
ZipColumnByOrder(df, dict) ==
    LET keys == SortedSeq(DOMAIN dict)
    IN  [k \in 1..Len(df) |->
            [station_id |-> df[k].station_id, lat |-> df[k].lat, lon |-> df[k].lon,
             station_name |-> df[k].station_name,
             zip_code |-> IF k <= Len(keys) THEN dict[keys[k]] ELSE "NaN"]]

\* df_stations["zip_code"] = zip_dict: the dictionary becomes a Series and
\* is aligned with the frame's index (0, 1, ... after reset_index); a row
\* whose position is no key gets a missing value.
ZipColumn(df, dict) ==
    [k \in 1..Len(df) |->
        [station_id |-> df[k].station_id, lat |-> df[k].lat, lon |-> df[k].lon,
         station_name |-> df[k].station_name,
         zip_code |-> IF k - 1 \in DOMAIN dict THEN dict[k - 1] ELSE "NaN"]]

\* The aggregation shared by both sources: combine the two ends, drop
\* duplicates and rows without coordinates, aggregate per station id.
CombineTerminals(df_stations_start, df_stations_end) ==
    GroupByStation(
        SelectSeq(DropDuplicates(df_stations_start \o df_stations_end),
                  LAMBDA r : r.lat # NaN /\ r.lon # NaN))

\* City, surrogate id and the final column names.
StationRegistry(df, city, uuids) ==
    [i \in 1..Len(df) |->
        [station_uuid |-> uuids[i],
         original_station_id |-> df[i].station_id,
         latitude |-> df[i].lat,
         longitude |-> df[i].lon,
         station_name |-> df[i].station_name,
         zip_code |-> df[i].zip_code,
         city |-> city]]

MetroStationSeed == 0
CapitalStationSeedAsMetro == MetroStationSeed
CapitalStationSeed == 1

MetroStationsAggregated(df) ==
    rectify_coordinates(
        CombineTerminals(get_metro_unique_stations(StartTerminal(StationColumns(df))),
                         get_metro_unique_stations(EndTerminal(StationColumns(df)))),
        MetroCityLatitude, MetroCityLongitude, Tolerance)

generate_metro_stations_dataframe(df, r, failing) ==
    LET agg == MetroStationsAggregated(df)
    IN  StationRegistry(WithZipCodes(agg, failing), "Los Angeles",
                        Uuids(RandomSeed(r, MetroStationSeed), Len(agg)))

CapitalStationsRaises(df) ==
    \/ CapitalUniqueStationsRaises(StartTerminal(StationColumns(df)))
    \/ CapitalUniqueStationsRaises(EndTerminal(StationColumns(df)))

CapitalStationsAggregated(df) ==
    rectify_coordinates(
        CombineTerminals(get_capital_unique_stations(StartTerminal(StationColumns(df))),
                         get_capital_unique_stations(EndTerminal(StationColumns(df)))),
        CapitalCityLatitude, CapitalCityLongitude, Tolerance)

generate_capital_stations_dataframe(df, r, failing) ==
    LET agg == CapitalStationsAggregated(df)
    IN  StationRegistry(WithZipCodes(agg, failing), "Washington D.C.",
                        Uuids(RandomSeed(r, CapitalStationSeed), Len(agg)))

\* The generator as generate_metro_stations_dataframe leaves it.
MetroStationsRng(df, r) ==
    Drawn(RandomSeed(r, MetroStationSeed), Len(MetroStationsAggregated(df)))
CapitalStationsRng(df, r) ==
    Drawn(RandomSeed(r, CapitalStationSeed), Len(CapitalStationsAggregated(df)))

generate_stations_dataframe(metro, capital, r, failing_metro, failing_capital) ==
    generate_metro_stations_dataframe(metro, r, failing_metro)
    \o generate_capital_stations_dataframe(capital, MetroStationsRng(metro, r),
                                           failing_capital)

(***************************************************************************)
(* data_cleaning_homogenization.py: bikes.  A raw bike_id cell is a record *)
(* [kind, text]: an integer or a float (text holds the digits of its whole *)
(* value), a string, or a missing value.  Text is a sequence of            *)
(* one-character strings.                                                  *)
(***************************************************************************)
MinBikeIdDigits == 4

DigitChars == {"0", "1", "2", "3", "4", "5", "6", "7", "8", "9"}

\* The characters of the modelled texts, in code-point order.
CharOrder ==
    <<".", "0", "1", "2", "3", "4", "5", "6", "7", "8", "9", "R", "W", "_",
      "a", "b", "c", "d", "e", "i", "k", "l", "n", "o", "r", "s", "t">>
CharCode(c) == CHOOSE k \in 1..Len(CharOrder) : CharOrder[k] = c

\* Python's str order: the first differing character decides, a prefix is
\* smaller.
RECURSIVE TextLess(_, _)
TextLess(a, b) ==
    IF b = <<>> THEN FALSE
    ELSE IF a = <<>> THEN TRUE
    ELSE IF Head(a) # Head(b) THEN CharCode(Head(a)) < CharCode(Head(b))
    ELSE TextLess(Tail(a), Tail(b))

RECURSIVE SortedTexts(_)
SortedTexts(S) ==
    IF S = {} THEN <<>>
    ELSE LET m == CHOOSE x \in S : \A y \in S \ {x} : TextLess(x, y)
         IN  <<m>> \o SortedTexts(S \ {m})

\* str.count(r'\d')
DigitCount(text) == Cardinality({i \in 1..Len(text) : text[i] \in DigitChars})

\* astype(str) of one cell: str(5867) = "5867", str(586.0) = "586.0",
\* str(nan) = "nan", a string is itself.
AsTypeStr(cell) ==
    IF cell.kind = "nan" THEN <<"n", "a", "n">>
    ELSE IF cell.kind = "float" THEN cell.text \o <<".", "0">>
    ELSE cell.text

StrCell(cell) == [kind |-> "str", text |-> AsTypeStr(cell)]

\* The bike type vocabulary in str order (Series.mode sorts its values).
BikeTypeOrder ==
    <<"classic_bike", "docked_bike", "electric", "electric_bike", "smart", "standard">>
BikeTypeRank(t) == CHOOSE k \in 1..Len(BikeTypeOrder) : BikeTypeOrder[k] = t

\* The test-id filter with a threshold one digit lower.
ValidBikeIdLoose(text) == DigitCount(text) >= MinBikeIdDigits - 1

\* valid_ids_mask: the id has at least four digits.
ValidBikeId(text) == DigitCount(text) >= MinBikeIdDigits

\* df[["bike_id", "bike_type"]].drop_duplicates(), bike_id.astype(str),
\* groupby(by=["bike_id"]).agg(safe_mode).reset_index(), valid_ids_mask.
BikesAggregated(df) ==
    LET pairs == DropDuplicates([i \in 1..Len(df) |->
                    [bike_id |-> df[i].bike_id, bike_type |-> df[i].bike_type]])
        texts == [i \in 1..Len(pairs) |->
                    [bike_id |-> AsTypeStr(pairs[i].bike_id),
                     bike_type |-> pairs[i].bike_type]]
        ids == SortedTexts({texts[i].bike_id : i \in 1..Len(texts)})
        grouped == [k \in 1..Len(ids) |->
                    LET g == SelectSeq(texts, LAMBDA b : b.bike_id = ids[k])
                    IN  [bike_id |-> ids[k],
                         bike_type |-> SafeModeBy([i \in 1..Len(g) |-> g[i].bike_type],
                                                  "NaN", BikeTypeRank)]]
    IN  SelectSeq(grouped, LAMBDA b : ValidBikeId(b.bike_id))

BikeRegistry(df, uuids) ==
    [i \in 1..Len(df) |->
        [bike_uuid |-> uuids[i],
         original_bike_id |-> df[i].bike_id,
         bike_type |-> df[i].bike_type]]

MetroBikeSeed == 2
CapitalBikeSeed == 3

generate_metro_bikes_dataframe(df, r) ==
    BikeRegistry(BikesAggregated(df),
                 Uuids(RandomSeed(r, MetroBikeSeed), Len(BikesAggregated(df))))

\* Missing types become classic_bike, then the Capital vocabulary is mapped
\* onto Metro's; any other value is left as it is.
HomogenizeCapitalBikeType(t) ==
    LET filled == IF t = "NaN" THEN "classic_bike" ELSE t
    IN  IF filled \in {"classic_bike", "docked_bike"} THEN "standard"
        ELSE IF filled = "electric_bike" THEN "electric"
        ELSE filled

generate_capital_bikes_dataframe(df, r) ==
    LET agg == BikesAggregated(df)
    IN  BikeRegistry([i \in 1..Len(agg) |->
                        [agg[i] EXCEPT !.bike_type = HomogenizeCapitalBikeType(@)]],
                     Uuids(RandomSeed(r, CapitalBikeSeed), Len(agg)))

MetroBikesRng(df, r) == Drawn(RandomSeed(r, MetroBikeSeed), Len(BikesAggregated(df)))
CapitalBikesRng(df, r) == Drawn(RandomSeed(r, CapitalBikeSeed), Len(BikesAggregated(df)))

generate_bikes_dataframe(metro, capital, r) ==
    generate_metro_bikes_dataframe(metro, r)
    \o generate_capital_bikes_dataframe(capital, MetroBikesRng(metro, r))

\* homogenize_capital_dataset, lines 159-162: a missing bike id of a typed
\* ride becomes the placeholder id of its type.
FillMissingBikeId(row) ==
    IF row.bike_id.kind = "nan" /\ row.bike_type = "classic_bike"
    THEN [row EXCEPT !.bike_id = [kind |-> "str",
            text |-> <<"0", "0", "0", "0", "_", "c", "l", "a", "s", "s", "i", "c">>]]
    ELSE IF row.bike_id.kind = "nan" /\ row.bike_type = "electric_bike"
    THEN [row EXCEPT !.bike_id = [kind |-> "str",
            text |-> <<"0", "0", "0", "0", "_", "e", "l", "e", "c", "t", "r", "i", "c">>]]
    ELSE IF row.bike_id.kind = "nan" /\ row.bike_type = "docked_bike"
    THEN [row EXCEPT !.bike_id = [kind |-> "str",
            text |-> <<"0", "0", "0", "0", "_", "d", "o", "c", "k", "e", "d">>]]
    ELSE row

(***************************************************************************)
(* data_cleaning_homogenization.py: trips.                                 *)
(***************************************************************************)
TripSeed == 4
SecondsPerMinute == 60

\* sort_values on several columns (a stable lexsort): row i goes after
\* every row that is smaller, or equal in the key and earlier.
SortRows(rows, Less(_, _)) ==
    LET Position(i) ==
            1 + Cardinality({j \in 1..Len(rows) :
                    \/ Less(rows[j], rows[i])
                    \/ ~Less(rows[i], rows[j]) /\ j < i})
    IN  [k \in 1..Len(rows) |-> rows[CHOOSE i \in 1..Len(rows) : Position(i) = k]]

\* start_time < end_time on parsed timestamps; a missing one compares False.
StartQualityCondition(row) ==
    row.start_time # NaN /\ row.end_time # NaN /\ row.start_time < row.end_time

\* A trackable-trip mask that forgets the bikes.
TrackableTripNoBike(row, stations, bikes) ==
    /\ \E i \in 1..Len(stations) : stations[i].original_station_id = row.start_station_id
    /\ \E i \in 1..Len(stations) : stations[i].original_station_id = row.end_station_id

\* condition: both station ids are in the source's station registry and the
\* bike id, as text, is in the source's bike registry.
TrackableTrip(row, stations, bikes) ==
    /\ \E i \in 1..Len(stations) : stations[i].original_station_id = row.start_station_id
    /\ \E i \in 1..Len(stations) : stations[i].original_station_id = row.end_station_id
    /\ \E i \in 1..Len(bikes) : bikes[i].original_bike_id = AsTypeStr(row.bike_id)

\* df["bike_id"] = df["bike_id"].astype(str): the caller's table is changed.
BikeIdsAsStr(df) == [i \in 1..Len(df) |-> [df[i] EXCEPT !.bike_id = StrCell(@)]]

TripColumns(row, duration_factor) ==
    [trip_id |-> row.trip_id,
     start_time |-> row.start_time,
     end_time |-> row.end_time,
     start_station_id |-> row.start_station_id,
     end_station_id |-> row.end_station_id,
     bike_id |-> AsTypeStr(row.bike_id),
     member_type |-> row.member_type,
     duration |-> IF row.duration = NaN THEN NaN ELSE row.duration * duration_factor,
     plan_duration |-> IF row.plan_duration = NaN THEN NaN
                       ELSE row.plan_duration * duration_factor,
     trip_route_category |-> row.trip_route_category]

\* generate_metro_trips_dataframe: durations are minutes in the source.
generate_metro_trips_dataframe(df, stations, bikes) ==
    LET kept == SelectSeq(df, LAMBDA row : TrackableTrip(row, stations, bikes))
        trips == DropDuplicates([i \in 1..Len(kept) |-> TripColumns(kept[i], SecondsPerMinute)])
    IN  SelectSeq(trips, StartQualityCondition)

\* generate_capital_trips_dataframe: no plan_duration or trip_route_category
\* column; pd.concat in generate_trips_dataframe leaves them missing.
generate_capital_trips_dataframe(df, stations, bikes) ==
    LET kept == SelectSeq(df, LAMBDA row : TrackableTrip(row, stations, bikes))
        trips == DropDuplicates([i \in 1..Len(kept) |->
                    [TripColumns(kept[i], 1) EXCEPT !.plan_duration = NaN,
                                                    !.trip_route_category = "NaN"]])
    IN  SelectSeq(trips, StartQualityCondition)

\* "change to only member and casual" with the eight rewrites of the code;
\* every other value is left as it is.
HomogenizeMemberType(t) ==
    IF t \in {"Member", "Flex Pass", "Annual Pass", "Monthly Pass", "One Day Pass"}
    THEN "member"
    ELSE IF t \in {"Casual", "Walk-up", "Testing"} THEN "casual"
    ELSE t

TripLess(a, b) ==
    \/ a.start_time < b.start_time
    \/ a.start_time = b.start_time /\ a.end_time < b.end_time

\* generate_trips_dataframe(df_metro, df_capital) with the registries left
\* to their default None: the four registries are generated first (r is the
\* generator on entry; the geocoder's failures do not reach the trips).
generate_trips_dataframe(metro, capital, r) ==
    LET stations_metro == generate_metro_stations_dataframe(metro, r, {})
        bikes_metro == generate_metro_bikes_dataframe(metro, r)
        stations_capital == generate_capital_stations_dataframe(capital, r, {})
        bikes_capital == generate_capital_bikes_dataframe(capital, r)
        both == generate_metro_trips_dataframe(metro, stations_metro, bikes_metro)
                \o generate_capital_trips_dataframe(capital, stations_capital, bikes_capital)
        r4 == CapitalBikesRng(capital, CapitalStationsRng(capital,
                  MetroBikesRng(metro, MetroStationsRng(metro, r))))
        uuids == Uuids(RandomSeed(r4, TripSeed), Len(both))
    IN  SortRows([i \in 1..Len(both) |->
            [trip_uuid |-> uuids[i],
             original_trip_id |-> both[i].trip_id,
             start_time |-> both[i].start_time,
             end_time |-> both[i].end_time,
             start_station_id |-> both[i].start_station_id,
             end_station_id |-> both[i].end_station_id,
             bike_id |-> both[i].bike_id,
             member_type |-> HomogenizeMemberType(both[i].member_type),
             duration |-> both[i].duration,
             plan_duration |-> both[i].plan_duration,
             trip_route_category |-> both[i].trip_route_category]], TripLess)

TripsRng(metro, capital, r) ==
    Drawn(RandomSeed(CapitalBikesRng(capital, CapitalStationsRng(capital,
              MetroBikesRng(metro, MetroStationsRng(metro, r)))), TripSeed),
          Len(generate_trips_dataframe(metro, capital, r)))

\* set_index(key)[value].to_dict() followed by Series.map: the last row with
\* the key decides, a key of no row maps to a missing value.
MapValue(table, Key(_), Value(_), key) ==
    LET hits == {i \in 1..Len(table) : Key(table[i]) = key}
    IN  IF hits = {} THEN "NaN"
        ELSE Value(table[CHOOSE i \in hits : \A j \in hits : j <= i])

StationUuidOf(stations, id) ==
    MapValue(stations, LAMBDA st : st.original_station_id,
             LAMBDA st : st.station_uuid, id)
BikeUuidOf(bikes, id) ==
    MapValue(bikes, LAMBDA b : b.original_bike_id, LAMBDA b : b.bike_uuid, id)

\* The mapping done as an inner join: a trip with a key of no registry row
\* is dropped.
map_trips_inner_join(trips, stations, bikes) ==
    LET kept == SelectSeq(trips, LAMBDA t :
                    /\ StationUuidOf(stations, t.start_station_id) # "NaN"
                    /\ StationUuidOf(stations, t.end_station_id) # "NaN"
                    /\ BikeUuidOf(bikes, t.bike_id) # "NaN")
    IN  [i \in 1..Len(kept) |->
            [trip_uuid |-> kept[i].trip_uuid,
             original_trip_id |-> kept[i].original_trip_id,
             start_time |-> kept[i].start_time,
             end_time |-> kept[i].end_time,
             member_type |-> kept[i].member_type,
             duration |-> kept[i].duration,
             plan_duration |-> kept[i].plan_duration,
             trip_route_category |-> kept[i].trip_route_category,
             start_station_uuid |-> StationUuidOf(stations, kept[i].start_station_id),
             end_station_uuid |-> StationUuidOf(stations, kept[i].end_station_id),
             bike_uuid |-> BikeUuidOf(bikes, kept[i].bike_id)]]

map_trips_foreign_keys_to_uuids(trips, stations, bikes) ==
    [i \in 1..Len(trips) |->
        [trip_uuid |-> trips[i].trip_uuid,
         original_trip_id |-> trips[i].original_trip_id,
         start_time |-> trips[i].start_time,
         end_time |-> trips[i].end_time,
         member_type |-> trips[i].member_type,
         duration |-> trips[i].duration,
         plan_duration |-> trips[i].plan_duration,
         trip_route_category |-> trips[i].trip_route_category,
         start_station_uuid |-> StationUuidOf(stations, trips[i].start_station_id),
         end_station_uuid |-> StationUuidOf(stations, trips[i].end_station_id),
         bike_uuid |-> BikeUuidOf(bikes, trips[i].bike_id)]]

\* The caller's df_trips after the call: the two station columns were added
\* to it before the local name was rebound by drop().
TripsAfterMapping(trips, stations) ==
    [i \in 1..Len(trips) |->
        [trip_uuid |-> trips[i].trip_uuid,
         original_trip_id |-> trips[i].original_trip_id,
         start_time |-> trips[i].start_time,
         end_time |-> trips[i].end_time,
         start_station_id |-> trips[i].start_station_id,
         end_station_id |-> trips[i].end_station_id,
         bike_id |-> trips[i].bike_id,
         member_type |-> trips[i].member_type,
         duration |-> trips[i].duration,
         plan_duration |-> trips[i].plan_duration,
         trip_route_category |-> trips[i].trip_route_category,
         start_station_uuid |-> StationUuidOf(stations, trips[i].start_station_id),
         end_station_uuid |-> StationUuidOf(stations, trips[i].end_station_id)]]

(***************************************************************************)
(* data_cleaning_homogenization.py: demographics and weather, as far as    *)
(* the rows and their surrogate ids go (the indicator and meteorological   *)
(* columns do not bear on them).                                           *)
(***************************************************************************)
DemographicsSeed == 5
WeatherSeed == 6

\* zip_codes: the distinct zip_code values of the registry, in row order;
\* the areas the census answered come first, then the failed ones.
DemographicZipCodes(stations, no_data) ==
    LET zips == DropDuplicates([i \in 1..Len(stations) |-> stations[i].zip_code])
    IN  SelectSeq(zips, LAMBDA z : z \notin no_data)
        \o SelectSeq(zips, LAMBDA z : z \in no_data)

\* With no answered area the table has no indicator column and
\* df_demographics[variable] raises KeyError.
DemographicsRaises(stations, no_data) ==
    \A i \in 1..Len(stations) : stations[i].zip_code \in no_data

generate_demographics_dataframe(stations, no_data, r) ==
    LET zips == DemographicZipCodes(stations, no_data)
        uuids == Uuids(RandomSeed(r, DemographicsSeed), Len(zips))
    IN  [i \in 1..Len(zips) |-> [zip_code_uuid |-> uuids[i], zip_code |-> zips[i]]]

DemographicsRng(stations, no_data, r) ==
    Drawn(RandomSeed(r, DemographicsSeed), Len(DemographicZipCodes(stations, no_data)))

WeatherLess(a, b) ==
    \/ a.date < b.date
    \/ a.date = b.date /\ a.city = "Los Angeles" /\ b.city = "Washington D.C."

\* generate_weather_dataframe: hours is the number of hourly rows of each
\* of the two OpenMeteo files; ids are drawn before the sort by date, city.
generate_weather_dataframe(hours, r) ==
    LET uuids == Uuids(RandomSeed(r, WeatherSeed), 2 * hours)
    IN  SortRows([i \in 1..(2 * hours) |->
            [weather_uuid |-> uuids[i],
             date |-> IF i <= hours THEN i ELSE i - hours,
             city |-> IF i <= hours THEN "Los Angeles" ELSE "Washington D.C."]],
            WeatherLess)

WeatherRng(hours, r) == Drawn(RandomSeed(r, WeatherSeed), 2 * hours)

(***************************************************************************)
(* impute_hidden_values on a table of two indicator columns: population    *)
(* (never suppressed in the modelled tables) and median_household_income   *)
(* (suppressed by a negative sentinel).  Values are whole units.           *)
(***************************************************************************)
\* df.loc[df[column] < 0, column] = np.nan
HideNegative(value) == IF value # NaN /\ value < 0 THEN NaN ELSE value
HiddenValues(row) ==
    [row EXCEPT !.population = HideNegative(@),
                !.median_household_income = HideNegative(@)]

\* iloc[:, 2:].sum(axis=1): missing values are skipped.
RowSum(row) ==
    (IF row.population = NaN THEN 0 ELSE row.population)
    + (IF row.median_household_income = NaN THEN 0 ELSE row.median_household_income)

\* The zero-population step left out: the row goes to the imputer as it is.
ZeroValuesSkipped(row) == row

\* "no persons living in these zip codes": a row whose sum is 0 gets
\* fillna(0).
ZeroValues(row) ==
    IF RowSum(row) = 0
    THEN [row EXCEPT !.population = IF @ = NaN THEN 0 ELSE @,
                     !.median_household_income = IF @ = NaN THEN 0 ELSE @]
    ELSE row

\* The table handed to the imputer.
BeforeImputer(df) == [k \in 1..Len(df) |-> ZeroValues(HiddenValues(df[k]))]

\* IterativeImputer drops a column with no observed value; the assignment
\* to iloc[:, 2:] then raises ValueError (shape mismatch).
ImputerRaises(df) ==
    /\ df # <<>>
    /\ \A k \in 1..Len(df) : BeforeImputer(df)[k].median_household_income = NaN

RECURSIVE SumSeq(_)
SumSeq(values) ==
    IF values = <<>> THEN 0 ELSE Head(values) + SumSeq(Tail(values))

\* a / b to the nearest unit (b > 0).
RoundDiv(a, b) == (2 * a + b) \div (2 * b)

\* BayesianRidge fitted on the rows with an observed income and asked for
\* the income at population x.  With one predictor the fit is a ridge
\* line through the centroid: its slope lies between 0 and the
\* least-squares slope, so the prediction lies between the mean of the
\* observed incomes and the least-squares value.  When the observed rows
\* are on one line the evidence-maximised penalty vanishes and the
\* prediction is the line's value (-39.99999998 for -40 in a replay of the
\* estimator).  min_value is left at -inf: nothing clips the prediction.
Predictions(observed, x) ==
    LET n == Len(observed)
        xs == [k \in 1..n |-> observed[k].population]
        ys == [k \in 1..n |-> observed[k].median_household_income]
        sx == SumSeq(xs)
        sy == SumSeq(ys)
        sxx == n * SumSeq([k \in 1..n |-> xs[k] * xs[k]]) - sx * sx
        sxy == n * SumSeq([k \in 1..n |-> xs[k] * ys[k]]) - sx * sy
        mean == RoundDiv(sy, n)
        least_squares == RoundDiv(sy * sxx + sxy * (n * x - sx), n * sxx)
        on_one_line ==
            \A k \in 1..n :
                sxx * (n * ys[k] - sy) = sxy * (n * xs[k] - sx)
    IN  IF sxx = 0 THEN {mean}
        ELSE IF on_one_line THEN {least_squares}
        ELSE IF mean <= least_squares THEN mean..least_squares
        ELSE least_squares..mean

\* imputer.fit_transform: the tables it can return.  Observed values are
\* kept; each missing income is replaced by a prediction.
fit_transform(df) ==
    LET observed == SelectSeq(df, LAMBDA r : r.median_household_income # NaN)
        missing == {k \in 1..Len(df) : df[k].median_household_income = NaN}
        Choices(k) == IF k \in missing THEN Predictions(observed, df[k].population)
                      ELSE {df[k].median_household_income}
    IN  {[k \in 1..Len(df) |-> [df[k] EXCEPT !.median_household_income = income[k]]] :
            income \in {f \in [1..Len(df) -> UNION {Choices(k) : k \in 1..Len(df)}] :
                            \A k \in 1..Len(df) : f[k] \in Choices(k)}}

\* The tables impute_hidden_values can return.
impute_hidden_values(df) == fit_transform(BeforeImputer(df))

(***************************************************************************)
(* generate_demographics_dataframe, lines 834-872: the frame of the        *)
(* answered areas and the rows inserted for the others, on the two         *)
(* indicator columns of the imputation.                                    *)
(***************************************************************************)
\* The values in ascending order.
RECURSIVE Ascending(_)
Ascending(values) ==
    IF values = <<>> THEN <<>>
    ELSE LET k == CHOOSE i \in 1..Len(values) :
                      \A j \in 1..Len(values) : values[i] <= values[j]
         IN  <<values[k]>>
             \o Ascending([i \in 1..(Len(values) - 1) |->
                              IF i < k THEN values[i] ELSE values[i + 1]])

\* The arithmetic mean in place of the median.
ColumnMean(values) ==
    LET present == SelectSeq(values, LAMBDA v : v # NaN)
    IN  IF present = <<>> THEN NaN ELSE SumSeq(present) \div Len(present)

\* Series.median: missing values are skipped; the middle value, or the
\* mean of the two middle values.
ColumnMedian(values) ==
    LET present == Ascending(SelectSeq(values, LAMBDA v : v # NaN))
        n == Len(present)
    IN  IF n = 0 THEN NaN
        ELSE IF n % 2 = 1 THEN present[(n + 1) \div 2]
        ELSE (present[n \div 2] + present[n \div 2 + 1]) \div 2

\* df_demographics.median().to_frame().T with the area's zip_code.
MedianRow(df, zip_code) ==
    [zip_code |-> zip_code,
     population |-> ColumnMedian([i \in 1..Len(df) |-> df[i].population]),
     median_household_income |->
        ColumnMedian([i \in 1..Len(df) |-> df[i].median_household_income])]

\* The loop of lines 867-870: each median is taken over the frame as it
\* is then, the rows inserted before included.
RECURSIVE WithMedianRows(_, _)
WithMedianRows(df, failed_zip_codes) ==
    IF failed_zip_codes = <<>> THEN df
    ELSE WithMedianRows(Append(df, MedianRow(df, Head(failed_zip_codes))),
                        Tail(failed_zip_codes))

\* replies[k] is what request_census_data returned for zip_codes[k].
DemographicsFrame(zip_codes, replies) ==
    LET answered == SelectSeq([k \in 1..Len(zip_codes) |-> k],
                              LAMBDA k : replies[k] # <<>>)
        failed == SelectSeq([k \in 1..Len(zip_codes) |-> k],
                            LAMBDA k : replies[k] = <<>>)
    IN  WithMedianRows(
            [j \in 1..Len(answered) |->
                [zip_code |-> zip_codes[answered[j]],
                 population |-> replies[answered[j]][1],
                 median_household_income |-> replies[answered[j]][2]]],
            [j \in 1..Len(failed) |-> zip_codes[failed[j]]])

\* Lines 874-879: df_demographics.insert(0, 'zip_code_uuid', uuids).
WithZipCodeUuids(df, r) ==
    LET uuids == Uuids(RandomSeed(r, DemographicsSeed), Len(df))
    IN  [i \in 1..Len(df) |->
            [zip_code_uuid |-> uuids[i],
             zip_code |-> df[i].zip_code,
             population |-> df[i].population,
             median_household_income |-> df[i].median_household_income]]

(***************************************************************************)
(* run_pipeline.py: how a step's main can end, and which ends the          *)
(* try/except around it re-raises.                                         *)
(***************************************************************************)
Outcomes == {"returned", "SystemExit 0", "SystemExit 2", "Exception"}

\* except Exception only: every SystemExit is taken for a normal end.
ReraisedExceptionOnly(outcome) == outcome = "Exception"

\* except SystemExit with se.code != 0, and except Exception.
Reraised(outcome) == outcome \in {"SystemExit 2", "Exception"}

(***************************************************************************)
(* feature_engineering.py                                                  *)
(***************************************************************************)
SpeedLimitKmh == 50
MediumDuration == 300
LongDuration == 600
MediumDistanceHm == 20
LongDistanceHm == 40
SecondsPerHour == 3600
SecondsPerDay == 24 * SecondsPerHour

\* haversine_vectorized for one row, in hectometres.  On one meridian
\* (dlon = 0) the formula gives R * |dlat|; on the equator R * |dlon|.
\* Any other pair is outside the modelled batches and has no value.
haversine_vectorized(lat_start, lon_start, lat_end, lon_end) ==
    IF lon_start = lon_end THEN Abs(lat_end - lat_start)
    ELSE IF lat_start = 0 /\ lat_end = 0 THEN Abs(lon_end - lon_start)
    ELSE CHOOSE d \in {} : TRUE

\* pd.merge(left, df_stations, left_on=<key>, right_on="station_uuid"):
\* inner join, left row order kept, one output row per matching station row.
MergeStations(left, Key(_), stations, Combine(_, _)) ==
    Flatten([i \in 1..Len(left) |->
        LET m == SelectSeq(stations, LAMBDA st : st.station_uuid = Key(left[i]))
        IN  [j \in 1..Len(m) |-> Combine(left[i], m[j])]])

\* A speed filter that also drops the trips at exactly the limit.
SpeedLimitConditionStrict(distance, duration) ==
    IF duration > 0 THEN distance * SecondsPerHour < SpeedLimitKmh * duration * 10
    ELSE duration < 0

\* average_speed_kmh <= 50, with distance/duration*3600 evaluated as numpy
\* does: a positive distance over a zero duration is +inf, 0/0 is NaN (both
\* compare False), a negative duration gives a speed <= 0 (compares True).
\* The distance is in hectometres (ten to the kilometre).
SpeedLimitCondition(distance, duration) ==
    IF duration > 0 THEN distance * SecondsPerHour <= SpeedLimitKmh * duration * 10
    ELSE duration < 0

\* The duration buckets with each boundary in the lower bucket.
TripDurationCategoryExclusive(duration) ==
    IF duration > LongDuration THEN 2
    ELSE IF duration > MediumDuration /\ duration <= LongDuration THEN 1
    ELSE 0

TripDurationCategory(duration) ==
    IF duration >= LongDuration THEN 2
    ELSE IF duration >= MediumDuration /\ duration < LongDuration THEN 1
    ELSE 0

TripDistanceCategory(distance) ==
    IF distance >= LongDistanceHm THEN 2
    ELSE IF distance >= MediumDistanceHm /\ distance < LongDistanceHm THEN 1
    ELSE 0

\* Calendar fields of a timestamp of 1970 (not a leap year; 1 January 1970
\* was a Thursday, dayofweek 3).
CumulativeDays == <<31, 59, 90, 120, 151, 181, 212, 243, 273, 304, 334>>
HourOfDay(t) == (t \div SecondsPerHour) % 24
DayOfWeek(t) == ((t \div SecondsPerDay) + 3) % 7
MonthOf(t) ==
    1 + Cardinality({m \in 1..11 : (t \div SecondsPerDay) >= CumulativeDays[m]})
month_to_season ==
    [m \in 1..12 |->
        IF m \in {12, 1, 2} THEN "Winter"
        ELSE IF m \in {3, 4, 5} THEN "Spring"
        ELSE IF m \in {6, 7, 8} THEN "Summer"
        ELSE "Autumn"]

\* One merged row with every derived column.
FeatureRow(r) ==
    LET duration == r.end_time - r.start_time
        distance == haversine_vectorized(r.latitude_start, r.longitude_start,
                                         r.latitude_end, r.longitude_end)
    IN  [trip_uuid |-> r.trip_uuid,
         start_time |-> r.start_time,
         end_time |-> r.end_time,
         member_type |-> r.member_type,
         start_station_uuid |-> r.start_station_uuid,
         end_station_uuid |-> r.end_station_uuid,
         bike_uuid |-> r.bike_uuid,
         latitude_start |-> r.latitude_start,
         longitude_start |-> r.longitude_start,
         latitude_end |-> r.latitude_end,
         longitude_end |-> r.longitude_end,
         duration |-> duration,
         trip_duration_category |-> TripDurationCategory(duration),
         hour_of_day |-> HourOfDay(r.start_time),
         trip_hour_category |-> HourOfDay(r.start_time) \div 4,
         day_of_week |-> DayOfWeek(r.start_time),
         is_weekend |-> DayOfWeek(r.start_time) >= 5,
         month |-> MonthOf(r.start_time),
         season |-> month_to_season[MonthOf(r.start_time)],
         distance_hm |-> distance,
         trip_distance_category |-> TripDistanceCategory(distance)]

generate_trips_feature_engineering(trips, stations) ==
    LET withStart == MergeStations(trips,
                        LAMBDA t : t.start_station_uuid, stations,
                        LAMBDA t, st : [trip_uuid |-> t.trip_uuid,
                            start_time |-> t.start_time,
                            end_time |-> t.end_time,
                            member_type |-> t.member_type,
                            start_station_uuid |-> t.start_station_uuid,
                            end_station_uuid |-> t.end_station_uuid,
                            bike_uuid |-> t.bike_uuid,
                            latitude_start |-> st.latitude,
                            longitude_start |-> st.longitude])
        withEnd == MergeStations(withStart,
                        LAMBDA t : t.end_station_uuid, stations,
                        LAMBDA t, st : [trip_uuid |-> t.trip_uuid,
                            start_time |-> t.start_time,
                            end_time |-> t.end_time,
                            member_type |-> t.member_type,
                            start_station_uuid |-> t.start_station_uuid,
                            end_station_uuid |-> t.end_station_uuid,
                            bike_uuid |-> t.bike_uuid,
                            latitude_start |-> t.latitude_start,
                            longitude_start |-> t.longitude_start,
                            latitude_end |-> st.latitude,
                            longitude_end |-> st.longitude])
        feat == [i \in 1..Len(withEnd) |-> FeatureRow(withEnd[i])]
    IN  SelectSeq(feat, LAMBDA f : SpeedLimitCondition(f.distance_hm, f.duration))

(***************************************************************************)
(* The cleaning stage: its functions as operations on the tables.          *)
(***************************************************************************)
\* One homogenized trip row (Capital rows carry no plan_duration and no
\* trip_route_category: they are missing).
HomogenizedRow(start, end, bike_id, bike_type, member_type, start_time, end_time) ==
    [trip_id |-> 100,
     duration |-> 10,
     start_time |-> start_time,
     end_time |-> end_time,
     start_station_id |-> start.station_id,
     start_lat |-> start.lat,
     start_lon |-> start.lon,
     start_station_name |-> start.station_name,
     end_station_id |-> end.station_id,
     end_lat |-> end.lat,
     end_lon |-> end.lon,
     end_station_name |-> end.station_name,
     bike_id |-> bike_id,
     bike_type |-> bike_type,
     member_type |-> member_type,
     plan_duration |-> NaN,
     trip_route_category |-> "NaN"]

Mention(id, lat, lon) ==
    [station_id |-> id, lat |-> lat, lon |-> lon, station_name |-> "Main St"]

IntCell(text) == [kind |-> "int", text |-> text]
FloatCell(text) == [kind |-> "float", text |-> text]
TextCell(text) == [kind |-> "str", text |-> text]
NanCell == [kind |-> "nan", text |-> <<>>]

\* The lookups of get_zip_code_by_coordenates that fail on every attempt,
\* as positions of the aggregated station table.
GeoFailures == {{}, {1}}

InitOutputs ==
    /\ df_stations = <<>>
    /\ df_bikes = <<>>
    /\ df_trips = <<>>
    /\ df_trips_mapped = <<>>
    /\ df_demographics = <<>>
    /\ df_weather = <<>>
    /\ made = {}
    /\ listing = [metro |-> df_metro, capital |-> df_capital]

IdleFeat ==
    /\ df_trip_month = <<>>
    /\ stations_csv = <<>>
    /\ df_features = <<>>

\* No geocoding loop and no run of main under way.
IdleRun ==
    /\ zip_dict = <<>>
    /\ geo = [i |-> 0, retry_i |-> 0, calls |-> <<>>]
    /\ curated = <<>>
    /\ args = <<>>

GenerateStations ==
    /\ pc = "run"
    /\ ~CapitalStationsRaises(df_capital)
    /\ \E failing_metro \in GeoFailures, failing_capital \in GeoFailures :
        df_stations' = generate_stations_dataframe(df_metro, df_capital, rng,
                                                   failing_metro, failing_capital)
    /\ rng' = CapitalStationsRng(df_capital, MetroStationsRng(df_metro, rng))
    /\ made' = made \cup {"stations"}
    /\ UNCHANGED <<df_metro, df_capital, df_bikes, df_trips, df_trips_mapped,
                   df_demographics, df_weather, listing, openmeteo_hours, featVars, runVars, pc>>

\* station_id.astype(int) raises in get_capital_unique_stations: the Metro
\* registry was built, the call returns nothing.
GenerateStationsRaises ==
    /\ pc = "run"
    /\ CapitalStationsRaises(df_capital)
    /\ rng' = MetroStationsRng(df_metro, rng)
    /\ pc' = "failed"
    /\ UNCHANGED <<df_metro, df_capital, df_stations, df_bikes, df_trips, df_trips_mapped,
                   df_demographics, df_weather, made, listing, openmeteo_hours, featVars, runVars>>

GenerateBikes ==
    /\ pc = "run"
    /\ df_bikes' = generate_bikes_dataframe(df_metro, df_capital, rng)
    /\ rng' = CapitalBikesRng(df_capital, MetroBikesRng(df_metro, rng))
    /\ made' = made \cup {"bikes"}
    /\ UNCHANGED <<df_metro, df_capital, df_stations, df_trips, df_trips_mapped,
                   df_demographics, df_weather, listing, openmeteo_hours, featVars, runVars, pc>>

GenerateTrips ==
    /\ pc = "run"
    /\ ~CapitalStationsRaises(df_capital)
    /\ df_trips' = generate_trips_dataframe(df_metro, df_capital, rng)
    /\ df_metro' = BikeIdsAsStr(df_metro)
    /\ df_capital' = BikeIdsAsStr(df_capital)
    /\ rng' = TripsRng(df_metro, df_capital, rng)
    /\ made' = made \cup {"trips"}
    /\ UNCHANGED <<df_stations, df_bikes, df_trips_mapped, df_demographics, df_weather,
                   listing, openmeteo_hours, featVars, runVars, pc>>

MapTrips ==
    /\ pc = "run"
    /\ {"stations", "bikes", "trips"} \subseteq made
    /\ df_trips_mapped' = map_trips_foreign_keys_to_uuids(df_trips, df_stations, df_bikes)
    /\ df_trips' = TripsAfterMapping(df_trips, df_stations)
    /\ made' = made \cup {"mapped"}
    /\ UNCHANGED <<df_metro, df_capital, df_stations, df_bikes, df_demographics,
                   df_weather, rng, listing, openmeteo_hours, featVars, runVars, pc>>

\* The census answers for every postal area but those of no_data.
GenerateDemographics ==
    /\ pc = "run"
    /\ "stations" \in made
    /\ \E no_data \in SUBSET {df_stations[i].zip_code : i \in 1..Len(df_stations)} :
        /\ ~DemographicsRaises(df_stations, no_data)
        /\ df_demographics' = generate_demographics_dataframe(df_stations, no_data, rng)
        /\ rng' = DemographicsRng(df_stations, no_data, rng)
    /\ made' = made \cup {"demographics"}
    /\ UNCHANGED <<df_metro, df_capital, df_stations, df_bikes, df_trips, df_trips_mapped,
                   df_weather, listing, openmeteo_hours, featVars, runVars, pc>>

GenerateWeather ==
    /\ pc = "run"
    /\ df_weather' = generate_weather_dataframe(openmeteo_hours, rng)
    /\ rng' = WeatherRng(openmeteo_hours, rng)
    /\ made' = made \cup {"weather"}
    /\ UNCHANGED <<df_metro, df_capital, df_stations, df_bikes, df_trips, df_trips_mapped,
                   df_demographics, listing, openmeteo_hours, featVars, runVars, pc>>

(***************************************************************************)
(* Specification SpecStations: the station registry over every small       *)
(* table of one source (the other source holds one fixed row), in every    *)
(* order of the rows that mention a common station.                        *)
(***************************************************************************)
MetroLatA == 34 * Degree + 50000
MetroLatB == 34 * Degree + 60000
MetroLonA == -(118 * Degree + 250000)
MetroLonB == -(118 * Degree + 240000)
CapitalLatA == 38 * Degree + 905607
CapitalLatB == CapitalCityLatitude
CapitalLonA == CapitalCityLongitude
CapitalLonB == -(77 * Degree + 27137)
\* "38.91", "-77.04": the rounded coordinates of a ride that ends off-dock
CapitalLatRounded == 38 * Degree + 910000
CapitalLonRounded == -(77 * Degree + 40000)
\* 1970-01-03 08:00:00
RunStart == 2 * SecondsPerDay + 8 * SecondsPerHour

StationRunStarts(LatA, LatB, LonA, LonB) ==
    {Mention(id, lat, lon) : id \in {1, 2}, lat \in {LatA, LatB}, lon \in {LonA, LonB}}

MetroStationRunRows ==
    {HomogenizedRow(start, end, IntCell(<<"5", "8", "6", "7">>), "standard",
                    "Monthly Pass", RunStart, RunStart + 600) :
        start \in StationRunStarts(MetroLatA, MetroLatB, MetroLonA, MetroLonB),
        end \in {Mention(1, MetroLatA, MetroLonA), Mention(2, MetroLatB, MetroLonB),
                 Mention(2, NaN, NaN)}}

CapitalStationRunRows ==
    {HomogenizedRow(start, end, TextCell(<<"W", "2", "1", "0", "7", "1">>), "NaN",
                    "Member", RunStart, RunStart + 600) :
        start \in StationRunStarts(CapitalLatA, CapitalLatB, CapitalLonA, CapitalLonB)
                  \cup {Mention(1, CapitalLatRounded, CapitalLonRounded),
                        Mention(NaN, CapitalLatA, CapitalLonA)},
        end \in {Mention(1, CapitalLatA, CapitalLonA), Mention(2, CapitalLatA, CapitalLonA),
                 Mention(2, CapitalLatB, CapitalLonB)}}

FixedMetroTable ==
    <<HomogenizedRow(Mention(1, MetroLatA, MetroLonA), Mention(2, MetroLatB, MetroLonB),
                     IntCell(<<"5", "8", "6", "7">>), "standard", "Monthly Pass",
                     RunStart, RunStart + 600)>>
FixedCapitalTable ==
    <<HomogenizedRow(Mention(1, CapitalLatA, CapitalLonA), Mention(2, CapitalLatB, CapitalLonB),
                     TextCell(<<"W", "2", "1", "0", "7", "1">>), "NaN", "Member",
                     RunStart, RunStart + 600)>>

InitStations ==
    /\ \/ /\ df_metro \in SeqsUpTo(MetroStationRunRows, MaxStationRows)
          /\ df_capital = FixedCapitalTable
       \/ /\ df_metro = FixedMetroTable
          /\ df_capital \in SeqsUpTo(CapitalStationRunRows, MaxStationRows)
    /\ InitOutputs
    /\ rng \in {[seed |-> s, pos |-> 0] : s \in EntropySeeds}
    /\ openmeteo_hours = 0
    /\ IdleFeat
    /\ IdleRun
    /\ pc = "run"

\* Rows i and j of a table both mention station id k (at either end).
MentionCommonStation(df, i, j) ==
    \E k \in {df[i].start_station_id, df[i].end_station_id} \ {NaN} :
        k \in {df[j].start_station_id, df[j].end_station_id}

Swapped(df, i, j) ==
    [n \in 1..Len(df) |-> IF n = i THEN df[j] ELSE IF n = j THEN df[i] ELSE df[n]]

\* The rows of equal start_time reach the table in another order (the raw
\* files are listed, and ties sorted, in no fixed order).
SwapRows ==
    /\ pc = "run"
    /\ \/ /\ \E i, j \in 1..Len(df_metro) :
                /\ i < j
                /\ MentionCommonStation(df_metro, i, j)
                /\ df_metro[i].start_time = df_metro[j].start_time
                /\ df_metro' = Swapped(df_metro, i, j)
          /\ UNCHANGED df_capital
       \/ /\ \E i, j \in 1..Len(df_capital) :
                /\ i < j
                /\ MentionCommonStation(df_capital, i, j)
                /\ df_capital[i].start_time = df_capital[j].start_time
                /\ df_capital' = Swapped(df_capital, i, j)
          /\ UNCHANGED df_metro
    /\ UNCHANGED <<df_stations, df_bikes, df_trips, df_trips_mapped, df_demographics,
                   df_weather, made, rng, listing, openmeteo_hours, featVars, runVars, pc>>

NextStations == GenerateStations \/ GenerateStationsRaises \/ SwapRows

SpecStations == InitStations /\ [][NextStations]_vars

\* The registry of the tables in the order they were first read.
ListingRegistry ==
    generate_stations_dataframe(listing.metro, listing.capital, rng, {}, {})

\* C5: reordering the input rows that mention the same station natural id
\* does not change the surrogate id assigned to any station.
C5_OrderIndependentIds ==
    ("stations" \in made /\ ~CapitalStationsRaises(listing.capital)) =>
        LET first_read == ListingRegistry
            Key(st) == <<st.city, st.original_station_id>>
            first_ids == {<<Key(first_read[j]), first_read[j].station_uuid>> :
                            j \in 1..Len(first_read)}
        IN  \A i \in 1..Len(df_stations) :
                \A known \in first_ids :
                    known[1] = Key(df_stations[i]) => known[2] = df_stations[i].station_uuid

\* The table without its k-th row.
WithoutRow(df, k) ==
    [n \in 1..(Len(df) - 1) |-> IF n < k THEN df[n] ELSE df[n + 1]]

\* C26: the surrogate id of a station does not change when a row that
\* mentions only other stations is removed from the Metro table (checked
\* on the stations both registries hold).
C26_StableStationIds ==
    ("stations" \in made /\ ~CapitalStationsRaises(df_capital)) =>
        \A k \in 1..Len(df_metro) :
            LET smaller == generate_stations_dataframe(WithoutRow(df_metro, k), df_capital,
                                                       rng, {}, {})
            IN  \A i \in 1..Len(df_stations) : \A j \in 1..Len(smaller) :
                    (/\ df_stations[i].city = smaller[j].city
                     /\ df_stations[i].original_station_id = smaller[j].original_station_id
                     /\ df_stations[i].original_station_id
                            \notin {df_metro[k].start_station_id, df_metro[k].end_station_id})
                    => df_stations[i].station_uuid = smaller[j].station_uuid

\* Every mention of station id at either end of a table with usable
\* coordinates (all of Metro's that are present; Capital's with more than
\* six digits in both).
UsableMentions(df, id, Usable(_)) ==
    SelectSeq(StartTerminal(df) \o EndTerminal(df),
              LAMBDA m : m.station_id = id /\ Usable(m))

MetroUsable(m) == m.lat # NaN /\ m.lon # NaN
CapitalUsable(m) ==
    /\ CoordinateDigits(m.lat) > MinCoordinateDigits
    /\ CoordinateDigits(m.lon) > MinCoordinateDigits

MostFrequentCoordinates(st) ==
    LET ms == IF st.city = "Los Angeles"
              THEN UsableMentions(df_metro, st.original_station_id, MetroUsable)
              ELSE UsableMentions(df_capital, st.original_station_id, CapitalUsable)
    IN  [lat |-> SafeModeBy([i \in 1..Len(ms) |-> ms[i].lat], NaN, LAMBDA v : v),
         lon |-> SafeModeBy([i \in 1..Len(ms) |-> ms[i].lon], NaN, LAMBDA v : v)]

\* C6: the resolved latitude and longitude of a station are each the value
\* observed most frequently among all trip-endpoint mentions of its id
\* (ties: the smallest value).
C6_MostFrequentCoordinates ==
    "stations" \in made =>
        \A i \in 1..Len(df_stations) :
            /\ df_stations[i].latitude = MostFrequentCoordinates(df_stations[i]).lat
            /\ df_stations[i].longitude = MostFrequentCoordinates(df_stations[i]).lon

\* C29: the latitude and longitude of every registry station are a pair
\* that one trip-endpoint mention of the station's id holds together.
C29_PairObservedTogether ==
    "stations" \in made =>
        \A i \in 1..Len(df_stations) :
            LET st == df_stations[i]
                ms == IF st.city = "Los Angeles"
                      THEN UsableMentions(df_metro, st.original_station_id, MetroUsable)
                      ELSE UsableMentions(df_capital, st.original_station_id, CapitalUsable)
            IN  \E k \in 1..Len(ms) :
                    ms[k].lat = st.latitude /\ ms[k].lon = st.longitude

\* C30: every Capital station id mentioned at a trip endpoint with a valid
\* coordinate pair (more than six digits in both) is in the registry, also
\* when another station id is mentioned with the same pair.
C30_MentionedStationsRegistered ==
    "stations" \in made =>
        \A k \in 1..Len(df_capital) :
            \A id \in {df_capital[k].start_station_id, df_capital[k].end_station_id} \ {NaN} :
                UsableMentions(df_capital, id, CapitalUsable) # <<>>
                => \E i \in 1..Len(df_stations) :
                        /\ df_stations[i].city = "Washington D.C."
                        /\ df_stations[i].original_station_id = id

\* C7: in the station registry each (city, original_station_id) pair is in
\* exactly one row and no two rows share a station_uuid.
C7_OneRowOneIdPerStation ==
    "stations" \in made =>
        \A i, j \in 1..Len(df_stations) :
            i # j =>
                /\ df_stations[i].station_uuid # df_stations[j].station_uuid
                /\ ~(/\ df_stations[i].city = df_stations[j].city
                     /\ df_stations[i].original_station_id
                            = df_stations[j].original_station_id)

\* A registry with two stations of each source, the same natural ids in
\* both, built from a table that mentions a station more than once.
C7_Witness ==
    /\ "stations" \in made
    /\ \E i, j, k, l \in 1..Len(df_stations) :
        /\ i # j /\ k # l
        /\ df_stations[i].city = "Los Angeles" /\ df_stations[j].city = "Los Angeles"
        /\ df_stations[k].city = "Washington D.C." /\ df_stations[l].city = "Washington D.C."
        /\ df_stations[i].original_station_id = df_stations[k].original_station_id
        /\ df_stations[j].original_station_id = df_stations[l].original_station_id
    /\ \E id \in {1, 2} : Len(UsableMentions(df_metro, id, MetroUsable)) > 1

(***************************************************************************)
(* Specification SpecRectify: the Metro registry over tables whose         *)
(* coordinates carry a wrong sign, are zero, or lie in another city.       *)
(***************************************************************************)
RectifyRunRows ==
    {HomogenizedRow(Mention(1, lat, lon), Mention(2, MetroLatB, MetroLonB),
                    IntCell(<<"5", "8", "6", "7">>), "standard", "Monthly Pass",
                    RunStart, RunStart + 600) :
        lat \in {MetroLatA, -MetroLatA, 0, CapitalLatA},
        lon \in {MetroLonA, -MetroLonA, 0}}

InitRectify ==
    /\ df_metro \in SeqsUpTo(RectifyRunRows, MaxRectifyRows)
    /\ df_capital = FixedCapitalTable
    /\ InitOutputs
    /\ rng \in {[seed |-> s, pos |-> 0] : s \in EntropySeeds}
    /\ openmeteo_hours = 0
    /\ IdleFeat
    /\ IdleRun
    /\ pc = "run"

NextRectify == GenerateStations

SpecRectify == InitRectify /\ [][NextRectify]_vars

\* The centre of a registry row's city.
CityCentre(st) ==
    IF st.city = "Los Angeles"
    THEN [lat |-> MetroCityLatitude, lon |-> MetroCityLongitude]
    ELSE [lat |-> CapitalCityLatitude, lon |-> CapitalCityLongitude]

\* C11: every station of the registry has a latitude and a longitude
\* within the tolerance (3 degrees) of its city's centre; a station whose
\* aggregated coordinate is outside it (0, 0) is not kept with it.
C11_WithinTolerance ==
    "stations" \in made =>
        \A i \in 1..Len(df_stations) :
            /\ Abs(df_stations[i].latitude - CityCentre(df_stations[i]).lat) <= 3 * Degree
            /\ Abs(df_stations[i].longitude - CityCentre(df_stations[i]).lon) <= 3 * Degree

(***************************************************************************)
(* Specification SpecImpute: impute_hidden_values over every small table   *)
(* of postal areas.  listing.census keeps the table as the Census API      *)
(* answered it; df_demographics is the frame the function works on.        *)
(***************************************************************************)
\* The Census marks a median it does not publish.
Suppressed == -(666 * Degree) - 666666

\* (population, median household income in thousands).
CensusAnswers ==
    {<<0, 0>>, <<0, Suppressed>>, <<100, 50>>, <<300, 250>>, <<10, Suppressed>>,
     <<400, Suppressed>>}

AreaZipCodes == <<"90012", "90013", "20007", "20008", "20009">>

CensusTable(answers) ==
    [k \in 1..Len(answers) |->
        [zip_code_uuid |-> UuidStream[DemographicsSeed][k],
         zip_code |-> AreaZipCodes[k],
         population |-> answers[k][1],
         median_household_income |-> answers[k][2]]]

InitImpute ==
    /\ df_metro = <<>>
    /\ df_capital = <<>>
    /\ df_stations = <<>>
    /\ df_bikes = <<>>
    /\ df_trips = <<>>
    /\ df_trips_mapped = <<>>
    /\ df_weather = <<>>
    /\ made = {}
    /\ \E answers \in SeqsUpTo(CensusAnswers, MaxAreas) \ {<<>>} :
        /\ listing = [metro |-> <<>>, capital |-> <<>>, census |-> CensusTable(answers)]
        /\ df_demographics = CensusTable(answers)
    /\ rng = [seed |-> DemographicsSeed, pos |-> 0]
    /\ openmeteo_hours = 0
    /\ IdleFeat
    /\ IdleRun
    /\ pc = "impute"

ImputeHiddenValues ==
    /\ pc = "impute"
    /\ ~ImputerRaises(df_demographics)
    /\ df_demographics' \in impute_hidden_values(df_demographics)
    /\ pc' = "returned"
    /\ UNCHANGED <<df_metro, df_capital, df_stations, df_bikes, df_trips, df_trips_mapped,
                   df_weather, made, rng, listing, openmeteo_hours, featVars, runVars>>

\* The frame was already masked and zero-filled in place when the
\* assignment of the imputer's output raises.
ImputeHiddenValuesRaises ==
    /\ pc = "impute"
    /\ ImputerRaises(df_demographics)
    /\ df_demographics' = BeforeImputer(df_demographics)
    /\ pc' = "failed"
    /\ UNCHANGED <<df_metro, df_capital, df_stations, df_bikes, df_trips, df_trips_mapped,
                   df_weather, made, rng, listing, openmeteo_hours, featVars, runVars>>

NextImpute == ImputeHiddenValues \/ ImputeHiddenValuesRaises

SpecImpute == InitImpute /\ [][NextImpute]_vars

\* C12: after impute_hidden_values no indicator column holds a negative
\* value, whatever table with negative sentinels went in.
C12_NoNegativeIndicators ==
    pc = "returned" =>
        \A k \in 1..Len(df_demographics) :
            /\ df_demographics[k].population >= 0
            /\ df_demographics[k].median_household_income >= 0

\* C13: an area whose indicators, suppressed values ignored, sum to zero
\* has every indicator equal to zero after impute_hidden_values.
C13_ZeroAreasStayZero ==
    pc = "returned" =>
        \A k \in 1..Len(df_demographics) :
            RowSum(HiddenValues(listing.census[k])) = 0 =>
                /\ df_demographics[k].population = 0
                /\ df_demographics[k].median_household_income = 0

\* An area with a suppressed median and no population was returned next
\* to an inhabited area whose suppressed median was predicted.
C13_Witness ==
    /\ pc = "returned"
    /\ \E k, j \in 1..Len(df_demographics) :
        /\ listing.census[k].population = 0
        /\ listing.census[k].median_household_income = Suppressed
        /\ df_demographics[k].median_household_income = 0
        /\ listing.census[j].population > 0
        /\ listing.census[j].median_household_income = Suppressed

(***************************************************************************)
(* Specification SpecMap: map_trips_foreign_keys_to_uuids over every small *)
(* trip table, against the registries of the two fixed tables (stations 1  *)
(* and 2 in both cities, bikes 5867 and W21071).  Station 9, a missing     *)
(* station id and bike 586 are in no registry.                             *)
(***************************************************************************)
MapTripRows ==
    {[original_trip_id |-> 100,
      start_time |-> RunStart,
      end_time |-> RunStart + 600,
      start_station_id |-> start,
      end_station_id |-> end,
      bike_id |-> bike_id,
      member_type |-> member_type,
      duration |-> 10,
      plan_duration |-> NaN,
      trip_route_category |-> "NaN"] :
        start \in {1, 9}, end \in {2, NaN},
        bike_id \in {<<"5", "8", "6", "7">>, <<"5", "8", "6">>},
        member_type \in {"member", "casual"}}

TripTable(rows) ==
    [i \in 1..Len(rows) |->
        [trip_uuid |-> UuidStream[TripSeed][i],
         original_trip_id |-> rows[i].original_trip_id,
         start_time |-> rows[i].start_time,
         end_time |-> rows[i].end_time,
         start_station_id |-> rows[i].start_station_id,
         end_station_id |-> rows[i].end_station_id,
         bike_id |-> rows[i].bike_id,
         member_type |-> rows[i].member_type,
         duration |-> rows[i].duration,
         plan_duration |-> rows[i].plan_duration,
         trip_route_category |-> rows[i].trip_route_category]]

InitMap ==
    /\ df_metro = BikeIdsAsStr(FixedMetroTable)
    /\ df_capital = BikeIdsAsStr(FixedCapitalTable)
    /\ rng = [seed |-> TripSeed, pos |-> 0]
    /\ df_stations = generate_stations_dataframe(FixedMetroTable, FixedCapitalTable,
                                                 rng, {}, {})
    /\ df_bikes = generate_bikes_dataframe(FixedMetroTable, FixedCapitalTable, rng)
    /\ df_trips \in {TripTable(rows) : rows \in SeqsUpTo(MapTripRows, MaxMapRows)}
    /\ df_trips_mapped = <<>>
    /\ df_demographics = <<>>
    /\ df_weather = <<>>
    /\ made = {"stations", "bikes", "trips"}
    /\ listing = [metro |-> FixedMetroTable, capital |-> FixedCapitalTable,
                  trips |-> df_trips]
    /\ openmeteo_hours = 0
    /\ IdleFeat
    /\ IdleRun
    /\ pc = "run"

NextMap == MapTrips

SpecMap == InitMap /\ [][NextMap]_vars

NaturalKeys == {"start_station_id", "end_station_id", "bike_id"}
SurrogateKeys == {"start_station_uuid", "end_station_uuid", "bike_uuid"}

\* The reference a natural key must be replaced by: the surrogate id of a
\* registry row holding the key, or a missing value when there is none.
IsReference(registry, key_column, uuid_column, key, reference) ==
    LET holders == {k \in 1..Len(registry) : registry[k][key_column] = key}
    IN  IF holders = {} THEN reference = "NaN"
        ELSE reference \in {registry[k][uuid_column] : k \in holders}

\* C14: the mapped table has one row per input trip, in the same order,
\* with only the natural-key columns replaced by surrogate references; a
\* natural key absent from the registry gives a missing reference.
C14_NoFiltering ==
    "mapped" \in made =>
        /\ Len(df_trips_mapped) = Len(listing.trips)
        /\ \A i \in 1..Len(df_trips_mapped) :
            LET in == listing.trips[i]
                out == df_trips_mapped[i]
            IN  /\ DOMAIN out = (DOMAIN in \ NaturalKeys) \cup SurrogateKeys
                /\ \A column \in DOMAIN in \ NaturalKeys : out[column] = in[column]
                /\ IsReference(df_stations, "original_station_id", "station_uuid",
                               in.start_station_id, out.start_station_uuid)
                /\ IsReference(df_stations, "original_station_id", "station_uuid",
                               in.end_station_id, out.end_station_uuid)
                /\ IsReference(df_bikes, "original_bike_id", "bike_uuid",
                               in.bike_id, out.bike_uuid)

\* A trip with an unregistered start station was mapped next to a trip
\* whose three keys are registered.
C14_Witness ==
    /\ "mapped" \in made
    /\ \E i, j \in 1..Len(df_trips_mapped) :
        /\ listing.trips[i].start_station_id = 9
        /\ df_trips_mapped[i].start_station_uuid = "NaN"
        /\ df_trips_mapped[j].start_station_uuid # "NaN"
        /\ df_trips_mapped[j].end_station_uuid # "NaN"
        /\ df_trips_mapped[j].bike_uuid # "NaN"

\* C15: no stage changes a table handed to it: after
\* map_trips_foreign_keys_to_uuids returns, the caller's trip table holds
\* the columns and values it held before the call.
C15_CallerTablesUnchanged ==
    "mapped" \in made => df_trips = listing.trips

(***************************************************************************)
(* Specification SpecGeocode: get_zip_code_by_coordenates attempt by        *)
(* attempt over every small table of aggregated stations, each attempt     *)
(* either answered by the postal database or raising, followed by the      *)
(* assignment of the zip_code column.                                      *)
(***************************************************************************)
GeoCoordinates ==
    {<<MetroLatA, MetroLonA>>, <<CapitalLatA, CapitalLonA>>, <<0, 0>>}

GeoTable(coordinates) ==
    [k \in 1..Len(coordinates) |->
        [station_id |-> k, lat |-> coordinates[k][1], lon |-> coordinates[k][2],
         station_name |-> "Main St"]]

InitGeocode ==
    /\ df_metro = <<>>
    /\ df_capital = <<>>
    /\ df_stations \in {GeoTable(c) : c \in SeqsUpTo(GeoCoordinates, MaxGeoStations) \ {<<>>}}
    /\ df_bikes = <<>>
    /\ df_trips = <<>>
    /\ df_trips_mapped = <<>>
    /\ df_demographics = <<>>
    /\ df_weather = <<>>
    /\ made = {}
    /\ listing = [metro |-> <<>>, capital |-> <<>>, stations |-> df_stations]
    /\ rng = [seed |-> MetroStationSeed, pos |-> 0]
    /\ openmeteo_hours = 0
    /\ IdleFeat
    /\ zip_dict = <<>>
    /\ geo = [i |-> 0, retry_i |-> 0, calls |-> [k \in 1..Len(df_stations) |-> 0]]
    /\ curated = <<>>
    /\ args = <<>>
    /\ pc = "geocode"

\* The statements after the retry loop of row geo.i, retry_i being the
\* loop variable's last value: the raise, or the next row.
AfterRetries(retry_i, calls) ==
    IF retry_i - 1 = Retries
    THEN /\ pc' = "RecursionError"
         /\ geo' = [geo EXCEPT !.retry_i = retry_i, !.calls = calls]
    ELSE /\ pc' = pc
         /\ geo' = [i |-> geo.i + 1, retry_i |-> 0, calls |-> calls]

\* One attempt answered: the entry is stored and the loop left by break.
LookupAnswered ==
    /\ pc = "geocode"
    /\ geo.i < Len(df_stations)
    /\ zip_dict' = WithEntry(zip_dict, geo.i,
                             get_zip_code(df_stations[geo.i + 1].lat,
                                          df_stations[geo.i + 1].lon))
    /\ AfterRetries(geo.retry_i, [geo.calls EXCEPT ![geo.i + 1] = @ + 1])
    /\ UNCHANGED <<cleanVars, featVars, curated, args>>

\* One attempt raised: the error is printed and the next attempt follows,
\* if there is one.
LookupRaised ==
    /\ pc = "geocode"
    /\ geo.i < Len(df_stations)
    /\ IF geo.retry_i + 1 < Retries
       THEN /\ geo' = [geo EXCEPT !.retry_i = @ + 1, !.calls[geo.i + 1] = @ + 1]
            /\ pc' = pc
       ELSE AfterRetries(geo.retry_i, [geo.calls EXCEPT ![geo.i + 1] = @ + 1])
    /\ UNCHANGED <<cleanVars, featVars, zip_dict, curated, args>>

\* df_stations["zip_code"] = zip_dict
AssignZipCodes ==
    /\ pc = "geocode"
    /\ geo.i = Len(df_stations)
    /\ df_stations' = ZipColumn(df_stations, zip_dict)
    /\ pc' = "done"
    /\ UNCHANGED <<df_metro, df_capital, df_bikes, df_trips, df_trips_mapped, df_demographics,
                   df_weather, made, rng, listing, openmeteo_hours, featVars, runVars>>

NextGeocode == LookupAnswered \/ LookupRaised \/ AssignZipCodes

SpecGeocode == InitGeocode /\ [][NextGeocode]_vars

\* The rows whose every attempt raised: the loop is past them and the
\* dictionary has no entry for them.
Exhausted == {k \in 0..(geo.i - 1) : k \notin DOMAIN zip_dict}

\* C16: when the lookup of a station failed on every one of its attempts,
\* get_zip_code_by_coordenates raises RecursionError.
C16_ExhaustionRaises ==
    pc # "RecursionError" => Exhausted = {}

LookedUp == 1..geo.i

\* The number of attempts per row stays within the retries, the rows are
\* taken in table order, and a row left before its last attempt has its
\* entry (found or not) in the dictionary.
AttemptsInOrder ==
    pc \in {"geocode", "done"} =>
        /\ \A k \in 1..Len(geo.calls) : geo.calls[k] <= Retries
        /\ \A k \in LookedUp : geo.calls[k] >= 1
        /\ \A k \in 1..Len(geo.calls) : k > geo.i + 1 => geo.calls[k] = 0
        /\ \A k \in LookedUp : geo.calls[k] < Retries => (k - 1) \in DOMAIN zip_dict

\* No step makes an attempt for a row that has its entry.
NoAttemptAfterAnswer ==
    \A k \in 1..Len(geo.calls) :
        (k - 1) \in DOMAIN zip_dict => geo'.calls[k] = geo.calls[k]

\* C27: each station's lookup is attempted at most retries (5) times, in
\* station order, and never again after its first answered attempt; a
\* "not found" answer is an answer and is not retried.
C27_AttemptsBounded == [](AttemptsInOrder) /\ [][NoAttemptAfterAnswer]_vars

\* The first row was answered "not found" at its only attempt; the second
\* was answered at its third attempt.
C27_Witness ==
    /\ pc = "done"
    /\ Len(geo.calls) = 2
    /\ geo.calls[1] = 1
    /\ zip_dict[0] = "NaN"
    /\ geo.calls[2] = 3
    /\ zip_dict[1] # "NaN"

(***************************************************************************)
(* data_cleaning_homogenization.py: main.  The CuratedData folder is a     *)
(* function from file names to tables; it outlives a run.                  *)
(***************************************************************************)
File(name) == [name |-> name, year |-> 0, month |-> 0]
\* trips_{y}_{m:02d}.csv
TripsFile(y, m) == [name |-> "trips", year |-> y, month |-> m]

\* to_csv into the folder: a file of the same name is replaced, every
\* other file stays.
Written(folder, files) ==
    [f \in DOMAIN folder \cup DOMAIN files |->
        IF f \in DOMAIN files THEN files[f] ELSE folder[f]]

\* astype(str).str.zfill(5) of a postal area: five digits stay, a missing
\* value becomes the text "00nan".
ZipText(zip_code) == IF zip_code = "NaN" THEN "00nan" ELSE zip_code

ZipUuidOf(demographics, zip_code) ==
    MapValue(demographics, LAMBDA d : ZipText(d.zip_code),
             LAMBDA d : d.zip_code_uuid, ZipText(zip_code))

map_stations_foreign_keys_to_uuids(stations, demographics) ==
    [i \in 1..Len(stations) |->
        [station_uuid |-> stations[i].station_uuid,
         original_station_id |-> stations[i].original_station_id,
         latitude |-> stations[i].latitude,
         longitude |-> stations[i].longitude,
         station_name |-> stations[i].station_name,
         city |-> stations[i].city,
         zip_code_uuid |-> ZipUuidOf(demographics, stations[i].zip_code)]]

\* The caller's df_stations after the call: zip_code was rewritten and
\* zip_code_uuid added before the local name was rebound by drop().
StationsAfterMapping(stations, demographics) ==
    [i \in 1..Len(stations) |->
        [station_uuid |-> stations[i].station_uuid,
         original_station_id |-> stations[i].original_station_id,
         latitude |-> stations[i].latitude,
         longitude |-> stations[i].longitude,
         station_name |-> stations[i].station_name,
         zip_code |-> ZipText(stations[i].zip_code),
         city |-> stations[i].city,
         zip_code_uuid |-> ZipUuidOf(demographics, stations[i].zip_code)]]

\* Calendar fields of a timestamp of 1970 or 1971 (no leap year).
DaysPerYear == CumulativeDays[11] + 31
YearOf(t) == 1970 + (t \div SecondsPerDay) \div DaysPerYear
MonthOfYear(t) == MonthOf(t % (DaysPerYear * SecondsPerDay))
DayOfMonth(t) ==
    LET day == (t \div SecondsPerDay) % DaysPerYear
        month == MonthOfYear(t)
    IN  1 + day - (IF month = 1 THEN 0 ELSE CumulativeDays[month - 1])

\* dt.strftime('%Y-%m-%dT%H:%M:%S.%f'), field by field.
strftime(t) ==
    <<YearOf(t), MonthOfYear(t), DayOfMonth(t), HourOfDay(t),
      (t \div SecondsPerMinute) % 60, t % 60, 0>>

\* The month file of a trip taken from the time the trip ended.
PartitionKeyByEnd(trip) == <<YearOf(trip.end_time), MonthOfYear(trip.end_time)>>

\* years, months = start_time.dt.year, start_time.dt.month
PartitionKey(trip) == <<YearOf(trip.start_time), MonthOfYear(trip.start_time)>>

\* dropna(subset=["start_time", "end_time"])
TripsValid(trips) ==
    SelectSeq(trips, LAMBDA t : t.start_time # NaN /\ t.end_time # NaN)

\* The files written by the loop over groupby([years, months]).
MonthlyFiles(trips) ==
    LET valid == TripsValid(trips)
        keys == {PartitionKey(valid[i]) : i \in 1..Len(valid)}
        group(key) == SelectSeq(valid, LAMBDA t : PartitionKey(t) = key)
    IN  [f \in {TripsFile(key[1], key[2]) : key \in keys} |->
            LET grp == group(<<f.year, f.month>>)
            IN  [i \in 1..Len(grp) |->
                    [grp[i] EXCEPT !.start_time = strftime(@),
                                   !.end_time = strftime(@)]]]

\* main, lines 1121-1141: the mapped trips are split by year and month of
\* their start and saved.
SaveMonthlyTrips ==
    /\ pc = "partition"
    /\ curated' = Written(curated, MonthlyFiles(df_trips_mapped))
    /\ pc' = "finished"
    /\ UNCHANGED <<cleanVars, featVars, zip_dict, geo, args>>

\* main, lines 1048-1055: the raw trip files are read; a missing folder or
\* column raises out of main.
Homogenize ==
    /\ pc = "step1"
    /\ IF args.raw_trips
       THEN /\ df_metro' = listing.metro
            /\ df_capital' = listing.capital
            /\ pc' = "step2"
       ELSE /\ UNCHANGED <<df_metro, df_capital>>
            /\ pc' = "failed"
    /\ UNCHANGED <<df_stations, df_bikes, df_trips, df_trips_mapped, df_demographics,
                   df_weather, made, rng, listing, openmeteo_hours, featVars, runVars>>

\* main, lines 1058-1072: stations, trips, bikes (in this order; the trips
\* turn bike_id of both tables into text), then bikes.csv is saved.  Every
\* geocoder lookup is answered.
GenerateEntities ==
    /\ pc = "step2"
    /\ ~CapitalStationsRaises(df_capital)
    /\ df_stations' = generate_stations_dataframe(df_metro, df_capital, rng, {}, {})
    /\ df_trips' = generate_trips_dataframe(df_metro, df_capital, rng)
    /\ df_metro' = BikeIdsAsStr(df_metro)
    /\ df_capital' = BikeIdsAsStr(df_capital)
    /\ df_bikes' = generate_bikes_dataframe(BikeIdsAsStr(df_metro), BikeIdsAsStr(df_capital),
                                            rng)
    /\ rng' = CapitalBikesRng(BikeIdsAsStr(df_capital), rng)
    /\ made' = {"stations", "trips", "bikes"}
    /\ curated' = Written(curated, [f \in {File("bikes.csv")} |-> df_bikes'])
    /\ pc' = "step3"
    /\ UNCHANGED <<df_trips_mapped, df_demographics, df_weather, listing, openmeteo_hours,
                   featVars, zip_dict, geo, args>>

\* generate_capital_stations_dataframe raises (a station id that astype(int)
\* cannot convert) before anything is saved.
GenerateEntitiesRaises ==
    /\ pc = "step2"
    /\ CapitalStationsRaises(df_capital)
    /\ pc' = "failed"
    /\ UNCHANGED <<cleanVars, featVars, runVars>>

\* main, lines 1074-1084: demographics.csv, unless skipped by the flag or
\* for want of US_CENSUS_API_KEY.  The census answers every postal area.
Demographics ==
    /\ pc = "step3"
    /\ IF args.skip_demographics \/ ~args.api_key
       THEN /\ pc' = "step4"
            /\ UNCHANGED <<df_demographics, rng, curated>>
       ELSE IF DemographicsRaises(df_stations, {})
       THEN /\ pc' = "failed"
            /\ UNCHANGED <<df_demographics, rng, curated>>
       ELSE /\ df_demographics' = generate_demographics_dataframe(df_stations, {}, rng)
            /\ rng' = DemographicsRng(df_stations, {}, rng)
            /\ curated' = Written(curated,
                                  [f \in {File("demographics.csv")} |-> df_demographics'])
            /\ pc' = "step4"
    /\ UNCHANGED <<df_metro, df_capital, df_stations, df_bikes, df_trips, df_trips_mapped,
                   df_weather, made, listing, openmeteo_hours, featVars, zip_dict, geo, args>>

\* main, lines 1086-1096: weather.csv; a missing OpenMeteo file raises
\* inside the try, the failure is printed and the run goes on.
Weather ==
    /\ pc = "step4"
    /\ IF ~args.skip_weather /\ args.raw_openmeteo
       THEN /\ df_weather' = generate_weather_dataframe(openmeteo_hours, rng)
            /\ rng' = WeatherRng(openmeteo_hours, rng)
            /\ curated' = Written(curated, [f \in {File("weather.csv")} |-> df_weather'])
       ELSE UNCHANGED <<df_weather, rng, curated>>
    /\ pc' = "step5"
    /\ UNCHANGED <<df_metro, df_capital, df_stations, df_bikes, df_trips, df_trips_mapped,
                   df_demographics, made, listing, openmeteo_hours, featVars, zip_dict, geo,
                   args>>

\* main, lines 1098-1117: the stations are mapped against demographics.csv
\* if the folder holds one, stations.csv is saved, the trips are mapped.
MapForeignKeys ==
    /\ pc = "step5"
    /\ LET exists == File("demographics.csv") \in DOMAIN curated
           demographics == IF exists THEN curated[File("demographics.csv")] ELSE <<>>
           df_stations_mapped ==
               IF exists THEN map_stations_foreign_keys_to_uuids(df_stations, demographics)
               ELSE df_stations
       IN  /\ df_demographics' = demographics
           /\ df_stations' = IF exists THEN StationsAfterMapping(df_stations, demographics)
                             ELSE df_stations
           /\ curated' = Written(curated, [f \in {File("stations.csv")} |-> df_stations_mapped])
    /\ df_trips_mapped' = map_trips_foreign_keys_to_uuids(df_trips, df_stations', df_bikes)
    /\ df_trips' = TripsAfterMapping(df_trips, df_stations')
    /\ made' = made \cup {"mapped"}
    /\ pc' = "partition"
    /\ UNCHANGED <<df_metro, df_capital, df_bikes, df_weather, rng, listing, openmeteo_hours,
                   featVars, zip_dict, geo, args>>

\* The next run of main over the same raw data and the same folder, with
\* flags of its own.
StartRun ==
    /\ pc \in {"finished", "failed"}
    /\ args.run < MaxRuns
    /\ \E skip_demographics, skip_weather \in BOOLEAN :
        args' = [args EXCEPT !.skip_demographics = skip_demographics,
                             !.skip_weather = skip_weather,
                             !.run = @ + 1]
    /\ df_metro' = <<>>
    /\ df_capital' = <<>>
    /\ df_stations' = <<>>
    /\ df_bikes' = <<>>
    /\ df_trips' = <<>>
    /\ df_trips_mapped' = <<>>
    /\ df_demographics' = <<>>
    /\ df_weather' = <<>>
    /\ made' = {}
    /\ rng' = [seed |-> CHOOSE e \in EntropySeeds : TRUE, pos |-> 0]
    /\ pc' = "step1"
    /\ UNCHANGED <<listing, openmeteo_hours, featVars, zip_dict, geo, curated>>

(***************************************************************************)
(* Specification SpecMain: up to MaxRuns runs of main over one raw folder  *)
(* and one CuratedData folder, empty before the first run.                 *)
(***************************************************************************)
MainStarts == {RunStart, 40 * SecondsPerDay}

MainMetroRows ==
    {HomogenizedRow(Mention(1, MetroLatA, MetroLonA), Mention(2, MetroLatB, MetroLonB),
                    IntCell(<<"5", "8", "6", "7">>), "standard", "Monthly Pass",
                    start, start + 600) : start \in MainStarts}

\* The fixed Capital table, and one whose start station has no id.
MainCapitalTables ==
    {FixedCapitalTable,
     <<HomogenizedRow(Mention(NaN, CapitalLatA, CapitalLonA),
                      Mention(2, CapitalLatB, CapitalLonB),
                      TextCell(<<"W", "2", "1", "0", "7", "1">>), "NaN", "Member",
                      RunStart, RunStart + 600)>>}

InitMain ==
    /\ df_metro = <<>>
    /\ df_capital = <<>>
    /\ df_stations = <<>>
    /\ df_bikes = <<>>
    /\ df_trips = <<>>
    /\ df_trips_mapped = <<>>
    /\ df_demographics = <<>>
    /\ df_weather = <<>>
    /\ made = {}
    /\ \E metro \in SeqsUpTo(MainMetroRows, MaxMainRows), capital \in MainCapitalTables :
        listing = [metro |-> metro, capital |-> capital]
    /\ rng = [seed |-> CHOOSE e \in EntropySeeds : TRUE, pos |-> 0]
    /\ openmeteo_hours = 1
    /\ IdleFeat
    /\ zip_dict = <<>>
    /\ geo = [i |-> 0, retry_i |-> 0, calls |-> <<>>]
    /\ curated = <<>>
    /\ args \in [skip_demographics : BOOLEAN, skip_weather : BOOLEAN, api_key : BOOLEAN,
                 raw_trips : BOOLEAN, raw_openmeteo : BOOLEAN, run : {1}]
    /\ pc = "step1"

NextMain ==
    \/ Homogenize
    \/ GenerateEntities
    \/ GenerateEntitiesRaises
    \/ Demographics
    \/ Weather
    \/ MapForeignKeys
    \/ SaveMonthlyTrips
    \/ StartRun

SpecMain == InitMain /\ [][NextMain]_vars

\* An input the run needs is not there: the trip files, or the OpenMeteo
\* files of a run that assembles the weather.
InputMissing ==
    \/ ~args.raw_trips
    \/ ~args.skip_weather /\ ~args.raw_openmeteo

\* C18: when a required input file is missing the run stops with a failure
\* before any curated file is written: it neither goes on nor ends with
\* part of the outputs in the folder.
C18_NoPartialOutputs ==
    (args.run = 1 /\ InputMissing) =>
        /\ DOMAIN curated = {}
        /\ pc \notin {"step5", "partition", "finished"}

\* The stations table the run writes into an empty folder.
StationsOnEmptyFolder ==
    LET fresh == [seed |-> CHOOSE e \in EntropySeeds : TRUE, pos |-> 0]
        stations == generate_stations_dataframe(listing.metro, listing.capital, fresh,
                                                {}, {})
    IN  IF ~args.skip_demographics /\ args.api_key
        THEN map_stations_foreign_keys_to_uuids(
                 stations, generate_demographics_dataframe(stations, {}, fresh))
        ELSE stations

\* C19: the stations table a run saves is determined by the raw inputs and
\* the run's flags: after any earlier runs it is the table the same run
\* writes into an empty folder.
C19_StationsFromInputsAndFlags ==
    pc = "finished" => curated[File("stations.csv")] = StationsOnEmptyFolder

(***************************************************************************)
(* Specification SpecPartition: the monthly split over every small table   *)
(* of mapped trips: starts in January 1970, in the last minutes of         *)
(* January (ending in February), in February, in January 1971, and         *)
(* timestamps that to_datetime turned into NaT.                            *)
(***************************************************************************)
PartitionStarts ==
    {RunStart, 31 * SecondsPerDay - 300, 40 * SecondsPerDay,
     DaysPerYear * SecondsPerDay + RunStart}

PartitionTimes ==
    {<<start, end>> : start \in PartitionStarts, end \in {NaN}}
    \cup {<<start, start + 600>> : start \in PartitionStarts}
    \cup {<<NaN, RunStart + 600>>, <<NaN, NaN>>}

MappedTable(times) ==
    [i \in 1..Len(times) |->
        [trip_uuid |-> UuidStream[TripSeed][i],
         original_trip_id |-> 100,
         start_time |-> times[i][1],
         end_time |-> times[i][2],
         member_type |-> "member",
         duration |-> 10,
         plan_duration |-> NaN,
         trip_route_category |-> "NaN",
         start_station_uuid |-> UuidStream[MetroStationSeed][1],
         end_station_uuid |-> UuidStream[MetroStationSeed][2],
         bike_uuid |-> UuidStream[MetroBikeSeed][1]]]

InitPartition ==
    /\ df_metro = <<>>
    /\ df_capital = <<>>
    /\ df_stations = <<>>
    /\ df_bikes = <<>>
    /\ df_trips = <<>>
    /\ df_trips_mapped \in {MappedTable(t) : t \in SeqsUpTo(PartitionTimes, MaxPartitionRows)}
    /\ df_demographics = <<>>
    /\ df_weather = <<>>
    /\ made = {"stations", "bikes", "trips", "mapped"}
    /\ listing = [metro |-> <<>>, capital |-> <<>>]
    /\ rng = [seed |-> TripSeed, pos |-> 0]
    /\ openmeteo_hours = 0
    /\ IdleFeat
    /\ IdleRun
    /\ pc = "partition"

NextPartition == SaveMonthlyTrips

SpecPartition == InitPartition /\ [][NextPartition]_vars

\* The month files of the folder holding a row of the trip.
FilesHolding(trip_uuid) ==
    {f \in DOMAIN curated :
        /\ f.name = "trips"
        /\ \E k \in 1..Len(curated[f]) : curated[f][k].trip_uuid = trip_uuid}

\* C20: every mapped trip with a start and an end timestamp is written to
\* exactly one trips_{year}_{month} file, the one of the year and month of
\* its start, and once; a trip with an unparseable timestamp is written to
\* none.
C20_OneMonthFilePerTrip ==
    pc = "finished" =>
        \A i \in 1..Len(df_trips_mapped) :
            LET trip == df_trips_mapped[i]
            IN  IF trip.start_time # NaN /\ trip.end_time # NaN
                THEN /\ FilesHolding(trip.trip_uuid)
                            = {TripsFile(YearOf(trip.start_time),
                                         MonthOfYear(trip.start_time))}
                     /\ \A f \in FilesHolding(trip.trip_uuid) :
                            Cardinality({k \in 1..Len(curated[f]) :
                                            curated[f][k].trip_uuid = trip.trip_uuid}) = 1
                ELSE FilesHolding(trip.trip_uuid) = {}

\* A trip that started in January and ended in February was saved with
\* January next to a trip without an end time, which was saved nowhere.
C20_Witness ==
    /\ pc = "finished"
    /\ \E i, j \in 1..Len(df_trips_mapped) :
        /\ df_trips_mapped[i].start_time = 31 * SecondsPerDay - 300
        /\ df_trips_mapped[i].end_time = 31 * SecondsPerDay + 300
        /\ FilesHolding(df_trips_mapped[i].trip_uuid) = {TripsFile(1970, 1)}
        /\ df_trips_mapped[j].start_time # NaN
        /\ df_trips_mapped[j].end_time = NaN
        /\ FilesHolding(df_trips_mapped[j].trip_uuid) = {}

(***************************************************************************)
(* Specification SpecBikes: the bike registry over every small table of    *)
(* one source (the other source holds one fixed row).                      *)
(***************************************************************************)
\* 5867, 586, 586.0 (a number column with a missing value is read as
\* float), "Rblock" and a missing id.
MetroBikeIds ==
    {IntCell(<<"5", "8", "6", "7">>), IntCell(<<"5", "8", "6">>), FloatCell(<<"5", "8", "6">>),
     TextCell(<<"R", "b", "l", "o", "c", "k">>), NanCell}
CapitalBikeIds ==
    {TextCell(<<"W", "2", "1", "0", "7", "1">>), TextCell(<<"W", "0", "1">>),
     IntCell(<<"5", "8", "6", "7">>), NanCell}

MetroBikeRunRows ==
    {HomogenizedRow(Mention(1, MetroLatA, MetroLonA), Mention(2, MetroLatB, MetroLonB),
                    bike_id, bike_type, "Monthly Pass", RunStart, RunStart + 600) :
        bike_id \in MetroBikeIds, bike_type \in {"standard", "electric", "smart", "NaN"}}

\* Rows as homogenize_capital_dataset leaves them.
CapitalBikeRunRows ==
    {FillMissingBikeId(
        HomogenizedRow(Mention(1, CapitalLatA, CapitalLonA), Mention(2, CapitalLatB, CapitalLonB),
                       bike_id, bike_type, "Member", RunStart, RunStart + 600)) :
        bike_id \in CapitalBikeIds,
        bike_type \in {"classic_bike", "electric_bike", "docked_bike", "NaN"}}

InitBikes ==
    /\ \/ /\ df_metro \in SeqsUpTo(MetroBikeRunRows, MaxBikeRows)
          /\ df_capital = FixedCapitalTable
       \/ /\ df_metro = FixedMetroTable
          /\ df_capital \in SeqsUpTo(CapitalBikeRunRows, MaxBikeRows)
    /\ InitOutputs
    /\ rng \in {[seed |-> s, pos |-> 0] : s \in EntropySeeds}
    /\ openmeteo_hours = 0
    /\ IdleFeat
    /\ IdleRun
    /\ pc = "run"

NextBikes == GenerateBikes

SpecBikes == InitBikes /\ [][NextBikes]_vars

\* The bike ids of a table, as text.
BikeIdTexts(df) == {AsTypeStr(df[i].bike_id) : i \in 1..Len(df)}
RegistryBikeIds == {df_bikes[i].original_bike_id : i \in 1..Len(df_bikes)}

\* C8: no bike whose natural id, written as text, has fewer than 4 digit
\* characters is in the bike registry, and every natural id of the two
\* tables with at least 4 digits is.
C8_BikeIdDigits ==
    "bikes" \in made =>
        /\ \A id \in RegistryBikeIds : DigitCount(id) >= 4
        /\ \A id \in BikeIdTexts(df_metro) \cup BikeIdTexts(df_capital) :
            DigitCount(id) >= 4 => id \in RegistryBikeIds

\* A table with an id of three digits (left out of the registry) and one of
\* four digits (in it).
C8_Witness ==
    /\ "bikes" \in made
    /\ \E short, long \in BikeIdTexts(df_metro) :
        /\ DigitCount(short) = 3 /\ short \notin RegistryBikeIds
        /\ DigitCount(long) = 4 /\ long \in RegistryBikeIds

\* C9: every bike of the combined registry has bike_type "standard" or
\* "electric", whatever type values the raw data carries.
C9_CanonicalBikeTypes ==
    "bikes" \in made =>
        \A i \in 1..Len(df_bikes) : df_bikes[i].bike_type \in {"standard", "electric"}

(***************************************************************************)
(* Specification SpecTrips: the registries, the trip table and its foreign *)
(* keys over every small table of one source (the other source holds one   *)
(* fixed row).  Station 9 is mentioned without coordinates and bike 586    *)
(* has three digits: neither reaches its registry.                         *)
(***************************************************************************)
TripRunRows(LatA, LonA, LatB, LonB, bike_ids, labels) ==
    {HomogenizedRow(start, Mention(2, LatB, LonB), bike_id, "standard", member_type,
                    RunStart, RunStart + 600) :
        start \in {Mention(1, LatA, LonA), Mention(9, NaN, NaN)},
        bike_id \in bike_ids,
        member_type \in labels}
    \cup {HomogenizedRow(Mention(1, LatA, LonA), Mention(2, LatB, LonB),
                         CHOOSE b \in bike_ids : DigitCount(AsTypeStr(b)) >= MinBikeIdDigits,
                         "standard", "Walk-up", RunStart, RunStart - 60)}

MetroTripRunRows ==
    TripRunRows(MetroLatA, MetroLonA, MetroLatB, MetroLonB,
                {IntCell(<<"5", "8", "6", "7">>), IntCell(<<"5", "8", "6">>)},
                {"Monthly Pass", "NaN"})

CapitalTripRunRows ==
    TripRunRows(CapitalLatA, CapitalLonA, CapitalLatB, CapitalLonB,
                {TextCell(<<"W", "2", "1", "0", "7", "1">>), TextCell(<<"W", "0", "1">>)},
                {"Member", "Unknown"})

InitTrips ==
    /\ \/ /\ df_metro \in SeqsUpTo(MetroTripRunRows, MaxTripRows)
          /\ df_capital = FixedCapitalTable
       \/ /\ df_metro = FixedMetroTable
          /\ df_capital \in SeqsUpTo(CapitalTripRunRows, MaxTripRows)
    /\ InitOutputs
    /\ rng = [seed |-> CHOOSE s \in EntropySeeds : TRUE, pos |-> 0]
    /\ openmeteo_hours = 0
    /\ IdleFeat
    /\ IdleRun
    /\ pc = "run"

NextTrips == GenerateStations \/ GenerateBikes \/ GenerateTrips \/ MapTrips

SpecTrips == InitTrips /\ [][NextTrips]_vars

RegistryStationUuids == {df_stations[i].station_uuid : i \in 1..Len(df_stations)}
RegistryStationIds == {df_stations[i].original_station_id : i \in 1..Len(df_stations)}
RegistryBikeUuids == {df_bikes[i].bike_uuid : i \in 1..Len(df_bikes)}

\* C3: after generate_trips_dataframe and map_trips_foreign_keys_to_uuids
\* every trip row has a start_station_uuid, end_station_uuid and bike_uuid
\* that is present and is the surrogate id of a registry row; the trips
\* whose natural station or bike id is in no registry were dropped before.
C3_ForeignKeysComplete ==
    "mapped" \in made =>
        /\ \A i \in 1..Len(df_trips_mapped) :
            /\ df_trips_mapped[i].start_station_uuid # "NaN"
            /\ df_trips_mapped[i].end_station_uuid # "NaN"
            /\ df_trips_mapped[i].bike_uuid # "NaN"
            /\ df_trips_mapped[i].start_station_uuid \in RegistryStationUuids
            /\ df_trips_mapped[i].end_station_uuid \in RegistryStationUuids
            /\ df_trips_mapped[i].bike_uuid \in RegistryBikeUuids
        /\ \A i \in 1..Len(df_trips) :
            /\ df_trips[i].start_station_id \in RegistryStationIds
            /\ df_trips[i].end_station_id \in RegistryStationIds
            /\ df_trips[i].bike_id \in RegistryBikeIds

\* Mapped trips exist, and the table held a ride from an unregistered
\* station and a ride of an unregistered bike.
C3_Witness ==
    /\ "mapped" \in made
    /\ df_trips_mapped # <<>>
    /\ \E i \in 1..Len(df_metro) : df_metro[i].start_station_id \notin RegistryStationIds
    /\ \E i \in 1..Len(df_metro) : AsTypeStr(df_metro[i].bike_id) \notin RegistryBikeIds

\* The city of the source a trip came from: in these runs the Metro rides
\* use bikes 5867 and 586, the Capital rides W21071 and W01.
TripCity(trip) ==
    IF Head(trip.bike_id) = "W" THEN "Washington D.C." ELSE "Los Angeles"

\* The registry rows of the city's station with the natural id.
OwnStations(city, id) ==
    {k \in 1..Len(df_stations) :
        df_stations[k].city = city /\ df_stations[k].original_station_id = id}

\* C28: the station references of every mapped trip are the surrogate ids
\* of the stations of the trip's own city that carry its natural station
\* ids, also when the other city has stations with the same natural ids.
C28_ReferencesOwnCity ==
    "mapped" \in made =>
        \A i \in 1..Len(df_trips_mapped) :
            /\ df_trips_mapped[i].start_station_uuid \in
                  {df_stations[k].station_uuid :
                      k \in OwnStations(TripCity(df_trips[i]), df_trips[i].start_station_id)}
            /\ df_trips_mapped[i].end_station_uuid \in
                  {df_stations[k].station_uuid :
                      k \in OwnStations(TripCity(df_trips[i]), df_trips[i].end_station_id)}

\* C10: every trip returned by generate_trips_dataframe has member_type
\* "member" or "casual", whatever label the source data carries.
C10_CanonicalMemberTypes ==
    "trips" \in made =>
        \A i \in 1..Len(df_trips) : df_trips[i].member_type \in {"member", "casual"}

(***************************************************************************)
(* Specification SpecRng: the five generators called in any order, any     *)
(* number of times, with other uses of module random in between.           *)
(***************************************************************************)
MetroRngRows ==
    {HomogenizedRow(Mention(1, MetroLatA, MetroLonA), Mention(2, MetroLatB, MetroLonB),
                    bike_id, "standard", "Monthly Pass", RunStart, RunStart + 600) :
        bike_id \in {IntCell(<<"5", "8", "6", "7">>), IntCell(<<"6", "0", "1", "2">>)}}

InitRng ==
    /\ df_metro \in SeqsUpTo(MetroRngRows, MaxRngRows)
    /\ df_capital = FixedCapitalTable
    /\ InitOutputs
    /\ rng \in {[seed |-> s, pos |-> 0] : s \in EntropySeeds}
    /\ openmeteo_hours \in 1..MaxWeatherHours
    /\ IdleFeat
    /\ IdleRun
    /\ pc = "run"

\* Any other code of the process draws from the shared generator.
OtherRandomUse ==
    /\ pc = "run"
    /\ rng.pos < MaxOtherDraws
    /\ rng' = Drawn(rng, 1)
    /\ UNCHANGED <<df_metro, df_capital, df_stations, df_bikes, df_trips, df_trips_mapped,
                   df_demographics, df_weather, made, listing, openmeteo_hours, featVars, runVars, pc>>

NextRng ==
    \/ GenerateStations
    \/ GenerateBikes
    \/ GenerateTrips
    \/ GenerateDemographics
    \/ GenerateWeather
    \/ OtherRandomUse

SpecRng == InitRng /\ [][NextRng]_vars

\* The generator as a fresh interpreter would hold it.
FreshRng == [seed |-> CHOOSE s \in EntropySeeds : TRUE, pos |-> 0]

\* The ids are the first Len(ids) draws after random.seed(seed_value).
FirstDrawsOf(ids, seed_value) ==
    \A k \in 1..Len(ids) : ids[k] = UuidStream[seed_value][k]

\* The same ids, in the order the final sort left them.
SortedDrawsOf(ids, seed_value) ==
    {ids[k] : k \in 1..Len(ids)} = {UuidStream[seed_value][k] : k \in 1..Len(ids)}

StationUuids(stations, city) ==
    LET rows == SelectSeq(stations, LAMBDA st : st.city = city)
    IN  [k \in 1..Len(rows) |-> rows[k].station_uuid]

\* C4: the surrogate ids of each registry generator are a function of its
\* input table and its fixed seed alone: they are the first draws after
\* its seed and equal those of a run in a fresh interpreter, in whatever
\* order the generators ran and whatever was drawn in between.
C4_IdsFromInputAndSeed ==
    /\ "stations" \in made =>
        /\ FirstDrawsOf(StationUuids(df_stations, "Los Angeles"), MetroStationSeed)
        /\ FirstDrawsOf(StationUuids(df_stations, "Washington D.C."), CapitalStationSeed)
        /\ LET again == generate_stations_dataframe(df_metro, df_capital, FreshRng, {}, {})
           IN  [k \in 1..Len(df_stations) |-> df_stations[k].station_uuid]
                   = [k \in 1..Len(again) |-> again[k].station_uuid]
    /\ "bikes" \in made =>
        df_bikes = generate_bikes_dataframe(df_metro, df_capital, FreshRng)
    /\ "trips" \in made =>
        /\ SortedDrawsOf([k \in 1..Len(df_trips) |-> df_trips[k].trip_uuid], TripSeed)
        /\ df_trips = generate_trips_dataframe(df_metro, df_capital, FreshRng)
    /\ "demographics" \in made =>
        FirstDrawsOf([k \in 1..Len(df_demographics) |-> df_demographics[k].zip_code_uuid],
                     DemographicsSeed)
    /\ "weather" \in made =>
        /\ SortedDrawsOf([k \in 1..Len(df_weather) |-> df_weather[k].weather_uuid], WeatherSeed)
        /\ df_weather = generate_weather_dataframe(openmeteo_hours, FreshRng)

\* All five tables were made, the stations last, and other code has drawn
\* from the shared generator since.
C4_Witness ==
    /\ made = {"stations", "bikes", "trips", "demographics", "weather"}
    /\ df_stations # <<>> /\ df_bikes # <<>> /\ df_trips # <<>>
    /\ df_demographics # <<>> /\ df_weather # <<>>
    /\ rng.seed = CapitalStationSeed
    /\ rng.pos > Len(StationUuids(df_stations, "Washington D.C."))

(***************************************************************************)
(* Specification SpecFeat: feature_engineering.main on one monthly file.   *)
(***************************************************************************)
\* 1970-01-03 (a Saturday) 08:00:00
BatchStart == 2 * SecondsPerDay + 8 * SecondsPerHour

\* stations.csv of the modelled runs: three stations on one meridian,
\* 1 km and 2.5 km north of the first.
FeatStations ==
    <<[station_uuid |-> "e3e70682-c209-4cac-629f-6fbed82c07cd", latitude |-> 0, longitude |-> 0],
      [station_uuid |-> "f728b4fa-4248-5e3a-0a5d-2f346baa9455", latitude |-> 10, longitude |-> 0],
      [station_uuid |-> "cd613e30-d8f1-6adf-91b7-584a2265b1f5", latitude |-> 25, longitude |-> 0]>>

FeatTripRows ==
    [trip_uuid : {"b8a1abcd-1a69-16c7-4da4-f9fc3c6da5d7"},
     start_time : {BatchStart},
     end_time : {BatchStart - 60, BatchStart, BatchStart + 71, BatchStart + 72,
                 BatchStart + 300, BatchStart + 600},
     member_type : {"member"},
     start_station_uuid : {"e3e70682-c209-4cac-629f-6fbed82c07cd",
                           "cd613e30-d8f1-6adf-91b7-584a2265b1f5", "NaN"},
     end_station_uuid : {"e3e70682-c209-4cac-629f-6fbed82c07cd",
                         "f728b4fa-4248-5e3a-0a5d-2f346baa9455"},
     bike_uuid : {"d95bafc8-f2a4-d27b-dcf4-bb99f4bea973"}]

InitFeat ==
    /\ df_metro = <<>>
    /\ df_capital = <<>>
    /\ InitOutputs
    /\ rng = [seed |-> 101, pos |-> 0]
    /\ openmeteo_hours = 0
    /\ stations_csv = FeatStations
    /\ df_trip_month \in SeqsUpTo(FeatTripRows, MaxBatch)
    /\ df_features = <<>>
    /\ IdleRun
    /\ pc = "read"

\* feature_engineering.main, one file: generate the features and save them.
FeatureEngineering ==
    /\ pc = "read"
    /\ df_features' = generate_trips_feature_engineering(df_trip_month, stations_csv)
    /\ pc' = "saved"
    /\ UNCHANGED <<df_trip_month, stations_csv, cleanVars, runVars>>

NextFeat == FeatureEngineering

SpecFeat == InitFeat /\ [][NextFeat]_vars

\* The station rows a surrogate reference joins to.
StationRows(uuid) == {j \in 1..Len(stations_csv) : stations_csv[j].station_uuid = uuid}

\* Row i of the batch joins at both ends.
Joins(i) ==
    /\ StationRows(df_trip_month[i].start_station_uuid) # {}
    /\ StationRows(df_trip_month[i].end_station_uuid) # {}

\* Distance (hm) and recomputed duration (s) of batch row i.
BatchDistance(i) ==
    LET s == stations_csv[CHOOSE j \in StationRows(df_trip_month[i].start_station_uuid) : TRUE]
        e == stations_csv[CHOOSE j \in StationRows(df_trip_month[i].end_station_uuid) : TRUE]
    IN  haversine_vectorized(s.latitude, s.longitude, e.latitude, e.longitude)
BatchDuration(i) == df_trip_month[i].end_time - df_trip_month[i].start_time

\* Batch row i is a row of the feature output.
InFeatures(i) ==
    \E k \in 1..Len(df_features) :
        /\ df_features[k].trip_uuid = df_trip_month[i].trip_uuid
        /\ df_features[k].start_time = df_trip_month[i].start_time
        /\ df_features[k].end_time = df_trip_month[i].end_time
        /\ df_features[k].start_station_uuid = df_trip_month[i].start_station_uuid
        /\ df_features[k].end_station_uuid = df_trip_month[i].end_station_uuid

\* C1: the feature output holds no trip whose average speed
\* (distance / recomputed duration * 3600) exceeds 50 km/h, and a joined
\* trip of positive duration whose speed is exactly 50 km/h is retained.
C1_SpeedCeiling ==
    pc = "saved" =>
        /\ \A k \in 1..Len(df_features) :
            LET f == df_features[k] IN
            /\ ~(f.duration > 0 /\ f.distance_hm * SecondsPerHour > SpeedLimitKmh * f.duration * 10)
            /\ ~(f.duration = 0 /\ f.distance_hm > 0)
        /\ \A i \in 1..Len(df_trip_month) :
            (/\ Joins(i)
             /\ BatchDuration(i) > 0
             /\ BatchDistance(i) * SecondsPerHour = SpeedLimitKmh * BatchDuration(i) * 10)
            => InFeatures(i)

\* A batch with one trip at exactly 50 km/h (kept) and one above (dropped).
C1_Witness ==
    /\ pc = "saved"
    /\ \E i \in 1..Len(df_trip_month) :
        /\ Joins(i) /\ BatchDuration(i) > 0
        /\ BatchDistance(i) * SecondsPerHour = SpeedLimitKmh * BatchDuration(i) * 10
        /\ InFeatures(i)
    /\ \E i \in 1..Len(df_trip_month) :
        /\ Joins(i) /\ BatchDuration(i) > 0
        /\ BatchDistance(i) * SecondsPerHour > SpeedLimitKmh * BatchDuration(i) * 10
        /\ ~InFeatures(i)

\* C2: every trip of the feature output has start_time strictly before
\* end_time, whatever batch the stage is given.
C2_StartBeforeEnd ==
    pc = "saved" =>
        \A k \in 1..Len(df_features) :
            df_features[k].start_time < df_features[k].end_time

(***************************************************************************)
(* Specification SpecCategory: feature_engineering.main on batches whose   *)
(* trips last 299, 300, 599, 600 or 1200 seconds over 0, 1.9, 2, 3.9 or    *)
(* 4 km.                                                                   *)
(***************************************************************************)
CategoryStations ==
    <<[station_uuid |-> UuidStream[MetroStationSeed][1], latitude |-> 0, longitude |-> 0],
      [station_uuid |-> UuidStream[MetroStationSeed][2],
       latitude |-> MediumDistanceHm - 1, longitude |-> 0],
      [station_uuid |-> UuidStream[MetroStationSeed][3],
       latitude |-> MediumDistanceHm, longitude |-> 0],
      [station_uuid |-> UuidStream[MetroStationSeed][4],
       latitude |-> LongDistanceHm - 1, longitude |-> 0],
      [station_uuid |-> UuidStream[MetroStationSeed][5],
       latitude |-> LongDistanceHm, longitude |-> 0]>>

CategoryTripRows ==
    [trip_uuid : {UuidStream[TripSeed][1]},
     start_time : {BatchStart},
     end_time : {BatchStart + MediumDuration - 1, BatchStart + MediumDuration,
                 BatchStart + LongDuration - 1, BatchStart + LongDuration,
                 BatchStart + 2 * LongDuration},
     member_type : {"member"},
     start_station_uuid : {UuidStream[MetroStationSeed][1]},
     end_station_uuid : {CategoryStations[k].station_uuid : k \in 1..Len(CategoryStations)},
     bike_uuid : {UuidStream[MetroBikeSeed][1]}]

InitCategory ==
    /\ df_metro = <<>>
    /\ df_capital = <<>>
    /\ InitOutputs
    /\ rng = [seed |-> CHOOSE e \in EntropySeeds : TRUE, pos |-> 0]
    /\ openmeteo_hours = 0
    /\ stations_csv = CategoryStations
    /\ df_trip_month \in SeqsUpTo(CategoryTripRows, MaxCategoryRows)
    /\ df_features = <<>>
    /\ IdleRun
    /\ pc = "read"

NextCategory == FeatureEngineering

SpecCategory == InitCategory /\ [][NextCategory]_vars

\* The one bucket of a value: below medium 0, from medium to below long 1,
\* from long on 2.
Bucket(value, medium, long) ==
    CHOOSE c \in {0, 1, 2} :
        /\ c = 0 <=> value < medium
        /\ c = 1 <=> (medium <= value /\ value < long)
        /\ c = 2 <=> long <= value

\* C21: every trip of the feature output has one duration category and one
\* distance category, with the boundaries in the upper bucket: 300 s is
\* medium and 600 s long, 2 km is medium and 4 km long.
C21_CategoryBoundaries ==
    pc = "saved" =>
        \A k \in 1..Len(df_features) :
            LET f == df_features[k]
                duration == f.end_time - f.start_time
                distance == haversine_vectorized(f.latitude_start, f.longitude_start,
                                                 f.latitude_end, f.longitude_end)
            IN  /\ f.trip_duration_category = Bucket(duration, 300, 600)
                /\ f.trip_distance_category = Bucket(distance, 20, 40)

\* A trip of exactly 300 seconds over exactly 4 km is in the output, medium
\* by duration and long by distance.
C21_Witness ==
    /\ pc = "saved"
    /\ \E k \in 1..Len(df_features) :
        /\ df_features[k].end_time - df_features[k].start_time = 300
        /\ df_features[k].distance_hm = 40
        /\ df_features[k].trip_duration_category = 1
        /\ df_features[k].trip_distance_category = 2

(***************************************************************************)
(* Specification SpecCensus: generate_demographics_dataframe over every    *)
(* small list of postal areas, each answered by the Census API or not.     *)
(* listing.census[k] is the answer for the k-th area (<<>> for None);      *)
(* postal areas are five-digit texts.  pc = "inserted" is the position     *)
(* after line 872, before the ids are drawn and the frame is imputed.      *)
(***************************************************************************)
\* The answers of request_census_data: (population, median household
\* income in thousands), or None.
CensusReplies == {<<>>, <<100, 50>>, <<300, 250>>, <<10, Suppressed>>}

InitCensus ==
    /\ df_metro = <<>>
    /\ df_capital = <<>>
    /\ df_bikes = <<>>
    /\ df_trips = <<>>
    /\ df_trips_mapped = <<>>
    /\ df_weather = <<>>
    /\ df_demographics = <<>>
    /\ made = {}
    /\ \E replies \in SeqsUpTo(CensusReplies, MaxCensusAreas) \ {<<>>} :
        /\ listing = [metro |-> <<>>, capital |-> <<>>, census |-> replies]
        /\ df_stations = [k \in 1..Len(replies) |->
                            [station_uuid |-> UuidStream[MetroStationSeed][k],
                             zip_code |-> AreaZipCodes[k]]]
    /\ rng = [seed |-> CHOOSE e \in EntropySeeds : TRUE, pos |-> 0]
    /\ openmeteo_hours = 0
    /\ IdleFeat
    /\ IdleRun
    /\ pc = "census"

\* Lines 834-872.
InsertMedianRows ==
    /\ pc = "census"
    /\ \E k \in 1..Len(listing.census) : listing.census[k] # <<>>
    /\ df_demographics' =
            DemographicsFrame(DropDuplicates([k \in 1..Len(df_stations) |->
                                                  df_stations[k].zip_code]),
                              listing.census)
    /\ pc' = "inserted"
    /\ UNCHANGED <<df_metro, df_capital, df_stations, df_bikes, df_trips, df_trips_mapped,
                   df_weather, made, rng, listing, openmeteo_hours, featVars, runVars>>

\* No area answered: the frame has no column and line 864 raises KeyError.
NoColumnToConvert ==
    /\ pc = "census"
    /\ \A k \in 1..Len(listing.census) : listing.census[k] = <<>>
    /\ pc' = "failed"
    /\ UNCHANGED <<cleanVars, featVars, runVars>>

\* Lines 874-884.
IdentifyAndImpute ==
    /\ pc = "inserted"
    /\ ~ImputerRaises(df_demographics)
    /\ df_demographics' \in
            impute_hidden_values(WithZipCodeUuids(df_demographics, rng))
    /\ rng' = Drawn(RandomSeed(rng, DemographicsSeed), Len(df_demographics))
    /\ pc' = "returned"
    /\ UNCHANGED <<df_metro, df_capital, df_stations, df_bikes, df_trips, df_trips_mapped,
                   df_weather, made, listing, openmeteo_hours, featVars, runVars>>

IdentifyAndImputeRaises ==
    /\ pc = "inserted"
    /\ ImputerRaises(df_demographics)
    /\ df_demographics' = BeforeImputer(WithZipCodeUuids(df_demographics, rng))
    /\ rng' = Drawn(RandomSeed(rng, DemographicsSeed), Len(df_demographics))
    /\ pc' = "failed"
    /\ UNCHANGED <<df_metro, df_capital, df_stations, df_bikes, df_trips, df_trips_mapped,
                   df_weather, made, listing, openmeteo_hours, featVars, runVars>>

NextCensus ==
    \/ InsertMedianRows
    \/ NoColumnToConvert
    \/ IdentifyAndImpute
    \/ IdentifyAndImputeRaises

SpecCensus == InitCensus /\ [][NextCensus]_vars

\* The areas the census answered and those it did not, as positions.
Resolved == {k \in 1..Len(listing.census) : listing.census[k] # <<>>}
Failed == {k \in 1..Len(listing.census) : listing.census[k] = <<>>}

\* m is the median of the column-th indicator over the resolved areas: no
\* more than half of the values lie on either side; it is one of the
\* values with less than half on each side, or halfway between the two
\* values next to it.
IsResolvedMedian(m, column) ==
    LET below == {k \in Resolved : listing.census[k][column] < m}
        above == {k \in Resolved : listing.census[k][column] > m}
        n == Cardinality(Resolved)
    IN  \/ /\ \E k \in Resolved : listing.census[k][column] = m
           /\ 2 * Cardinality(below) < n
           /\ 2 * Cardinality(above) < n
        \/ /\ 2 * Cardinality(below) = n
           /\ 2 * Cardinality(above) = n
           /\ \E a \in below, b \in above :
                /\ \A k \in below : listing.census[k][column] <= listing.census[a][column]
                /\ \A k \in above : listing.census[k][column] >= listing.census[b][column]
                /\ 2 * m = listing.census[a][column] + listing.census[b][column]

RowsOfArea(k) ==
    {i \in 1..Len(df_demographics) : df_demographics[i].zip_code = AreaZipCodes[k]}

TimeColumns ==
    {"start_time", "end_time", "started_at", "ended_at", "Start date", "End date"}

\* The cell pd.concat puts where a frame has no such column.
MissingCell(column) == IF column \in TimeColumns THEN NaN ELSE "NaN"

\* pd.read_csv of the k-th file of a folder of n files: one row, later
\* files holding earlier trips.
ReadCsv(columns, k, n) ==
    [columns |-> columns,
     rows |-> <<[c \in columns |->
                    IF c \in {"start_time", "started_at", "Start date"}
                    THEN RunStart + (n - k) * SecondsPerHour
                    ELSE IF c \in TimeColumns
                    THEN RunStart + (n - k) * SecondsPerHour + SecondsPerMinute
                    ELSE IF c = "rideable_type" THEN "classic_bike"
                    ELSE "value"]>>]

\* DataFrame.rename(columns=name_map): names outside the map stay.
Renamed(column, name_map) ==
    IF column \in DOMAIN name_map THEN name_map[column] ELSE column

rename(df, name_map) ==
    LET columns == {Renamed(c, name_map) : c \in df.columns}
    IN  [columns |-> columns,
         rows |-> [i \in 1..Len(df.rows) |->
                    [n \in columns |->
                        df.rows[i][CHOOSE c \in df.columns : Renamed(c, name_map) = n]]]]

\* pd.concat([df, segment]): the union of the columns, missing cells
\* where a frame lacks a column.
concat(df, segment) ==
    LET columns == df.columns \cup segment.columns
        Widened(frame) ==
            [i \in 1..Len(frame.rows) |->
                [c \in columns |->
                    IF c \in frame.columns THEN frame.rows[i][c] ELSE MissingCell(c)]]
    IN  [columns |-> columns, rows |-> Widened(df) \o Widened(segment)]

\* sort_values(by=["start_time"]): stable, missing values last.
StartTimeLess(a, b) ==
    a["start_time"] # NaN /\ (b["start_time"] = NaN \/ a["start_time"] < b["start_time"])

sort_values(df) == [columns |-> df.columns, rows |-> SortRows(df.rows, StartTimeLess)]

EmptyFrame == [columns |-> {}, rows |-> <<>>]

metro_name_map ==
    [c \in {"passholder_type", "start station name", "end station name"} |->
        CASE c = "passholder_type" -> "member_type"
          [] c = "start station name" -> "start_station_name"
          [] c = "end station name" -> "end_station_name"]

MetroStationRename ==
    [c \in {"start_station", "end_station"} |->
        IF c = "start_station" THEN "start_station_id" ELSE "end_station_id"]

\* Lines 66-74: the loop over the files.
RECURSIVE MetroSegments(_, _, _)
MetroSegments(df, files, k) ==
    IF k > Len(files) THEN df
    ELSE LET segment == ReadCsv(files[k], k, Len(files))
         IN  MetroSegments(
                concat(df, IF "start_station" \in segment.columns
                           THEN rename(segment, MetroStationRename)
                           ELSE segment),
                files, k + 1)

\* Lines 76-78, before the sort.
MetroRenamed(files) == rename(MetroSegments(EmptyFrame, files, 1), metro_name_map)

\* sort_values raises KeyError when the frame has no start_time column.
HomogenizeMetroRaises(files) == "start_time" \notin MetroRenamed(files).columns

homogenize_metro_dataset(files) == sort_values(MetroRenamed(files))

capital_name_map ==
    [c \in {"Duration", "started_at", "ended_at", "Bike number", "member_casual",
            "ride_id", "rideable_type", "start_lng", "end_lng"} |->
        CASE c = "Duration" -> "duration"
          [] c = "started_at" -> "start_time"
          [] c = "ended_at" -> "end_time"
          [] c = "Bike number" -> "bike_id"
          [] c = "member_casual" -> "member_type"
          [] c = "ride_id" -> "trip_id"
          [] c = "rideable_type" -> "bike_type"
          [] c = "start_lng" -> "start_lon"
          [] c = "end_lng" -> "end_lon"]

\* Lines 124-151: the four renames of the older layout, each applied when
\* its first column is there.
CapitalSegmentRename(columns) ==
    LET pairs ==
            (IF "Start station number" \in columns
             THEN {<<"Start station number", "start_station_id">>,
                   <<"End station number", "end_station_id">>} ELSE {})
            \cup (IF "Start station" \in columns
                  THEN {<<"Start station", "start_station_name">>,
                        <<"End station", "end_station_name">>} ELSE {})
            \cup (IF "Start date" \in columns
                  THEN {<<"Start date", "started_at">>, <<"End date", "ended_at">>}
                  ELSE {})
            \cup (IF "Member type" \in columns
                  THEN {<<"Member type", "member_casual">>} ELSE {})
    IN  [c \in {p[1] : p \in pairs} |-> (CHOOSE p \in pairs : p[1] = c)[2]]

RECURSIVE CapitalSegments(_, _, _)
CapitalSegments(df, files, k) ==
    IF k > Len(files) THEN df
    ELSE LET segment == ReadCsv(files[k], k, Len(files))
         IN  CapitalSegments(
                concat(df, rename(segment, CapitalSegmentRename(segment.columns))),
                files, k + 1)

CapitalRenamed(files) == rename(CapitalSegments(EmptyFrame, files, 1), capital_name_map)

\* KeyError: sort_values without start_time (line 156), or the
\* placeholders of lines 160-162 without bike_id or bike_type.
HomogenizeCapitalRaises(files) ==
    {"start_time", "bike_id", "bike_type"} \ CapitalRenamed(files).columns # {}

\* Lines 160-162 on the modelled rows (bike_type is classic_bike or missing).
BikeIdPlaceholder(row) ==
    IF row["bike_id"] = "NaN" /\ row["bike_type"] = "classic_bike"
    THEN [row EXCEPT !["bike_id"] = "0000_classic"]
    ELSE row

homogenize_capital_dataset(files) ==
    LET sorted == sort_values(CapitalRenamed(files))
    IN  [columns |-> sorted.columns,
         rows |-> [i \in 1..Len(sorted.rows) |-> BikeIdPlaceholder(sorted.rows[i])]]

\* The column layouts of the Metro files: the older one (start_station),
\* the newer one, and the older one short of one required column or of
\* the station columns.
MetroOlderLayout ==
    {"trip_id", "start_time", "end_time", "start_station", "end_station", "bike_id",
     "passholder_type"}

MetroLayouts ==
    {MetroOlderLayout,
     (MetroOlderLayout \ {"start_station", "end_station"})
        \cup {"start_station_id", "end_station_id"},
     MetroOlderLayout \ {"start_station", "end_station"}}
    \cup {MetroOlderLayout \ {c} :
            c \in {"start_time", "end_time", "bike_id", "passholder_type"}}

CapitalOlderLayout ==
    {"Duration", "Start date", "End date", "Start station number",
     "End station number", "Bike number", "Member type"}

CapitalNewerLayout ==
    {"ride_id", "rideable_type", "started_at", "ended_at", "start_station_id",
     "end_station_id", "member_casual"}

CapitalLayouts ==
    {CapitalOlderLayout, CapitalNewerLayout,
     CapitalOlderLayout \ {"Member type"},
     CapitalNewerLayout \ {"member_casual"},
     CapitalNewerLayout \ {"ended_at"},
     CapitalNewerLayout \ {"started_at"}}

InitHomogenize ==
    /\ df_metro = EmptyFrame
    /\ df_capital = EmptyFrame
    /\ df_stations = <<>>
    /\ df_bikes = <<>>
    /\ df_trips = <<>>
    /\ df_trips_mapped = <<>>
    /\ df_demographics = <<>>
    /\ df_weather = <<>>
    /\ made = {}
    /\ \E metro \in SeqsUpTo(MetroLayouts, MaxFiles),
          capital \in SeqsUpTo(CapitalLayouts, MaxFiles) :
        listing = [metro |-> metro, capital |-> capital]
    /\ rng = [seed |-> CHOOSE e \in EntropySeeds : TRUE, pos |-> 0]
    /\ openmeteo_hours = 0
    /\ IdleFeat
    /\ IdleRun
    /\ pc = "metro"

HomogenizeMetro ==
    /\ pc = "metro"
    /\ ~HomogenizeMetroRaises(listing.metro)
    /\ df_metro' = homogenize_metro_dataset(listing.metro)
    /\ made' = made \cup {"metro"}
    /\ pc' = "capital"
    /\ UNCHANGED <<df_capital, df_stations, df_bikes, df_trips, df_trips_mapped,
                   df_demographics, df_weather, rng, listing, openmeteo_hours,
                   featVars, runVars>>

HomogenizeMetroKeyError ==
    /\ pc = "metro"
    /\ HomogenizeMetroRaises(listing.metro)
    /\ pc' = "KeyError"
    /\ UNCHANGED <<cleanVars, featVars, runVars>>

HomogenizeCapital ==
    /\ pc = "capital"
    /\ ~HomogenizeCapitalRaises(listing.capital)
    /\ df_capital' = homogenize_capital_dataset(listing.capital)
    /\ made' = made \cup {"capital"}
    /\ pc' = "returned"
    /\ UNCHANGED <<df_metro, df_stations, df_bikes, df_trips, df_trips_mapped,
                   df_demographics, df_weather, rng, listing, openmeteo_hours,
                   featVars, runVars>>

HomogenizeCapitalKeyError ==
    /\ pc = "capital"
    /\ HomogenizeCapitalRaises(listing.capital)
    /\ pc' = "KeyError"
    /\ UNCHANGED <<cleanVars, featVars, runVars>>

NextHomogenize ==
    \/ HomogenizeMetro
    \/ HomogenizeMetroKeyError
    \/ HomogenizeCapital
    \/ HomogenizeCapitalKeyError

SpecHomogenize == InitHomogenize /\ [][NextHomogenize]_vars

RequiredColumns ==
    {"start_time", "end_time", "start_station_id", "end_station_id", "bike_id",
     "member_type"}

\* A returned frame has every required column, and no row of it has a
\* missing cell in one.
Complete(df) ==
    /\ RequiredColumns \subseteq df.columns
    /\ \A i \in 1..Len(df.rows) : \A c \in RequiredColumns :
        df.rows[i][c] # MissingCell(c)

\* C23: a table returned by homogenize_metro_dataset or
\* homogenize_capital_dataset has every required canonical column
\* (start_time, end_time, the station ids, bike_id, member_type), none of
\* them filled with missing values for the files that lack it: otherwise
\* the function raised.
C23_RequiredColumnsOrError ==
    /\ "metro" \in made => Complete(df_metro)
    /\ "capital" \in made => Complete(df_capital)

(***************************************************************************)
(* Specification SpecFlip: rectify_coordinates applied once and once more  *)
(* to every small table of stations, with the centre of either city as     *)
(* the registry generators pass it.  listing.stations is the table before  *)
(* the first application.                                                  *)
(***************************************************************************)
\* Coordinates at the centre, at and just beyond the tolerance, with
\* either sign, zero and missing.
FlipValues(city_value) ==
    {s * (Abs(city_value) + d) :
        s \in {1, -1}, d \in {0, Tolerance * Degree, Tolerance * Degree + 1}}
    \cup {0, NaN}

FlipTables(city) ==
    SeqsUpTo([station_id : {1},
              lat : FlipValues(CityCentre([city |-> city]).lat),
              lon : FlipValues(CityCentre([city |-> city]).lon)],
             MaxFlipRows)

InitFlip ==
    /\ df_metro = <<>>
    /\ df_capital = <<>>
    /\ df_bikes = <<>>
    /\ df_trips = <<>>
    /\ df_trips_mapped = <<>>
    /\ df_demographics = <<>>
    /\ df_weather = <<>>
    /\ made = {}
    /\ \E city \in {"Los Angeles", "Washington D.C."} :
        \E table \in FlipTables(city) :
            /\ df_stations = table
            /\ listing = [metro |-> <<>>, capital |-> <<>>, city |-> city,
                          stations |-> table]
    /\ rng = [seed |-> CHOOSE e \in EntropySeeds : TRUE, pos |-> 0]
    /\ openmeteo_hours = 0
    /\ IdleFeat
    /\ IdleRun
    /\ pc = "table"

RectifyCoordinates ==
    /\ pc \in {"table", "once"}
    /\ df_stations' = rectify_coordinates(df_stations, CityCentre(listing).lat,
                                          CityCentre(listing).lon, Tolerance)
    /\ pc' = IF pc = "table" THEN "once" ELSE "twice"
    /\ UNCHANGED <<df_metro, df_capital, df_bikes, df_trips, df_trips_mapped,
                   df_demographics, df_weather, made, rng, listing, openmeteo_hours,
                   featVars, runVars>>

NextFlip == RectifyCoordinates

SpecFlip == InitFlip /\ [][NextFlip]_vars

\* The value is within the tolerance of the city's in magnitude and on the
\* other side of zero.
WrongSide(value, city_value) ==
    /\ value # NaN
    /\ Abs(value) >= Abs(city_value) - 3 * Degree
    /\ Abs(value) <= Abs(city_value) + 3 * Degree
    /\ (value >= 0 /\ city_value < 0) \/ (value <= 0 /\ city_value > 0)

\* C24: rectify_coordinates flips the sign of a latitude (longitude)
\* exactly when its magnitude is within the tolerance of the city's and
\* its sign differs from the city's; every other cell is as it was, and a
\* second application changes nothing.
C24_FlipsExactlyWrongSigns ==
    pc \in {"once", "twice"} =>
        /\ Len(df_stations) = Len(listing.stations)
        /\ \A i \in 1..Len(df_stations) :
            LET before == listing.stations[i]
                after == df_stations[i]
                centre == CityCentre(listing)
            IN  /\ after.station_id = before.station_id
                /\ after.lat = IF WrongSide(before.lat, centre.lat)
                               THEN -before.lat ELSE before.lat
                /\ after.lon = IF WrongSide(before.lon, centre.lon)
                               THEN -before.lon ELSE before.lon

\* After the second application: a table with a flipped latitude at the
\* edge of the tolerance next to an untouched longitude.
C24_Witness ==
    /\ pc = "twice"
    /\ \E i \in 1..Len(df_stations) :
        /\ listing.stations[i].lat = -(CityCentre(listing).lat + 3 * Degree)
        /\ df_stations[i].lat = CityCentre(listing).lat + 3 * Degree
        /\ df_stations[i].lon = listing.stations[i].lon
        /\ listing.stations[i].lon = CityCentre(listing).lon

(***************************************************************************)
(* Specification SpecPipeline: run_pipeline.main for every choice of its   *)
(* flags and every way each step's main can end.  listing.calls is the     *)
(* history of the calls made (the main called, its argument list, how it   *)
(* ended), listing.stdout the lines printed.                               *)
(***************************************************************************)
InitPipeline ==
    /\ df_metro = <<>>
    /\ df_capital = <<>>
    /\ df_stations = <<>>
    /\ df_bikes = <<>>
    /\ df_trips = <<>>
    /\ df_trips_mapped = <<>>
    /\ df_demographics = <<>>
    /\ df_weather = <<>>
    /\ made = {}
    /\ listing = [metro |-> <<>>, capital |-> <<>>, calls |-> <<>>, stdout |-> <<>>]
    /\ rng = [seed |-> CHOOSE e \in EntropySeeds : TRUE, pos |-> 0]
    /\ openmeteo_hours = 0
    /\ IdleFeat
    /\ zip_dict = <<>>
    /\ geo = [i |-> 0, retry_i |-> 0, calls |-> <<>>]
    /\ curated = <<>>
    /\ args \in [no_unzip : BOOLEAN, skip_demographics : BOOLEAN, skip_weather : BOOLEAN,
                 features_all : BOOLEAN, features_year : {0, 1970},
                 features_month : {0, 1}]
    /\ pc = "step1"

\* Lines 49-56.
daq_args == {"--raw-data", "--start-date", "--end-date", "--sleep"}
            \cup (IF args.no_unzip THEN {"--no-unzip"} ELSE {})

\* Lines 72-80.
clean_args ==
    {"--raw-data", "--temp-data", "--curated-data"}
    \cup (IF args.skip_demographics THEN {"--skip-demographics"} ELSE {})
    \cup (IF args.skip_weather THEN {"--skip-weather"} ELSE {})

\* Lines 96-103: a year or month of 0 (or None) is falsy.
fe_args ==
    {"--curated-data"}
    \cup (IF args.features_all THEN {"--all"}
          ELSE IF args.features_year # 0 /\ args.features_month # 0
          THEN {"--year", "--month"}
          ELSE {"--all"})

\* One step: the heading is printed, the main is called, and the call
\* returns, exits with status 0 (swallowed), or is re-raised with a line
\* on stdout.
Step(position, heading, name, argv, failed, next) ==
    /\ pc = position
    /\ \E outcome \in Outcomes :
        /\ listing' =
            [listing EXCEPT
                !.calls = Append(@, [main |-> name, argv |-> argv, outcome |-> outcome]),
                !.stdout = @ \o <<heading>>
                             \o (IF Reraised(outcome) THEN <<failed>> ELSE <<>>)]
        /\ made' = IF Reraised(outcome) THEN made ELSE made \cup {name}
        /\ pc' = IF Reraised(outcome) THEN "raised" ELSE next
    /\ UNCHANGED <<df_metro, df_capital, df_stations, df_bikes, df_trips, df_trips_mapped,
                   df_demographics, df_weather, rng, openmeteo_hours, featVars, runVars>>

\* Lines 47-68.
DataAcquisition ==
    Step("step1", "== Step 1: Data acquisition ==", "data_acquisition", daq_args,
         "Data acquisition failed", "step2")

\* Lines 70-92.
CleaningHomogenization ==
    Step("step2", "== Step 2: Data cleaning & homogenization ==", "clean_homogenize",
         clean_args, "Cleaning failed", "step3")

\* Lines 94-113.
FeatureEngineeringStep ==
    Step("step3", "== Step 3: Feature engineering ==", "feat_enginering", fe_args,
         "Feature engineering failed", "report")

\* Line 115.
ReportSuccess ==
    /\ pc = "report"
    /\ listing' = [listing EXCEPT !.stdout = Append(@, "Pipeline finished successfully.")]
    /\ pc' = "returned"
    /\ UNCHANGED <<df_metro, df_capital, df_stations, df_bikes, df_trips, df_trips_mapped,
                   df_demographics, df_weather, made, rng, openmeteo_hours, featVars,
                   runVars>>

NextPipeline ==
    \/ DataAcquisition
    \/ CleaningHomogenization
    \/ FeatureEngineeringStep
    \/ ReportSuccess

SpecPipeline == InitPipeline /\ [][NextPipeline]_vars

StepOrder == <<"data_acquisition", "clean_homogenize", "feat_enginering">>

\* The call returned, or left with exit status 0.
Succeeded(call) == call.outcome \in {"returned", "SystemExit 0"}

\* C25: the steps are called in the order acquisition, cleaning, feature
\* engineering, each only after the one before it ended without an
\* exception or non-zero exit; after a failed step main has raised and
\* nothing more is called; "Pipeline finished successfully." is printed
\* only after all three steps succeeded.
C25_StepsInOrder ==
    LET calls == listing.calls
    IN  /\ Len(calls) <= 3
        /\ \A k \in 1..Len(calls) : calls[k].main = StepOrder[k]
        /\ \A k \in 1..Len(calls) :
            ~Succeeded(calls[k]) => (k = Len(calls) /\ pc = "raised")
        /\ (\E i \in 1..Len(listing.stdout) :
                listing.stdout[i] = "Pipeline finished successfully.")
           => (Len(calls) = 3 /\ \A k \in 1..3 : Succeeded(calls[k]))

\* The run was stopped by a non-zero exit of the cleaning step after the
\* acquisition succeeded.
C25_Witness ==
    /\ pc = "raised"
    /\ Len(listing.calls) = 2
    /\ listing.calls[2].outcome = "SystemExit 2"

====
